---------------------------- MODULE Spec2Model ----------------------------
(***************************************************************************)
(* Verification model of the twitter-sniper-token-buyer-bot monitoring     *)
(* scheduler (MonitoringService) and of the collaborators it drives.       *)
(*                                                                         *)
(* The repository holds two sources of MonitoringService:                  *)
(*   src/src/services/monitoring-service.ts   (build = "service")          *)
(*   src/unnamed/part_002                     (build = "part002")          *)
(* Both are modelled; `build` says which one runs.                         *)
(*                                                                         *)
(* Strings are sequences of one-character strings, so that parseInt,       *)
(* toLowerCase, trim and includes are computed as the code computes them.  *)
(***************************************************************************)
EXTENDS Integers, Sequences, FiniteSets, Bags, TLC

VARIABLES
    build,                  \* which MonitoringService source runs
    monitoringConfig,       \* constructor argument: sequence of MonitoringConfig
    solanaService,          \* TRUE iff this.solanaService is non-null
    proc,                   \* "running" | "exited" | "crashed"
    isMonitoring,           \* this.isMonitoring
    monitoringInterval,     \* TRUE iff the cycling setInterval timer is set
    activePairs,            \* this.activePairs (set of pair keys)
    userConfigsWithIds,     \* this.userConfigsWithIds (sequence of config numbers)
    currentUserIndex,       \* this.currentUserIndex (0-based, as in the code)
    lastProcessedTweetIds,  \* this.lastProcessedTweetIds (handle -> id string)
    initPc,                 \* per config: position of its initialization callbacks
    initializedCount,       \* initializeAllUsers' local counter
    timeline,               \* TweetSource: per handle, the posts published so far
    fetches,                \* bag of getUserTweets calls in flight
    pendingChecks,          \* bag of setTimeout-delayed checkForNewTweets calls
    purchases,              \* bag of suspended checkForNewTweets continuations
    results,                \* detect_tweet_results.json (append-only log)
    buyTransactions,        \* buy_transactions.json (append-only log)
    hist,                   \* history: what the handlers did (for the properties)
    LOOP_TIME_MS,           \* environment: the monitoring deadline (0 = none)
    timeoutTimer,           \* TRUE iff the deadline setTimeout timer is set
    request,                \* one TwitterAPI.getUserTweets call and its retries
    invocation,             \* one SolanaService.executeTokenPurchase invocation
    lookup,                 \* the user cache file and the getUserId calls on it
    previous                \* callbacks of a session that start() has restarted

vars == <<build, monitoringConfig, solanaService, proc, isMonitoring,
          monitoringInterval, activePairs, userConfigsWithIds, currentUserIndex,
          lastProcessedTweetIds, initPc, initializedCount, timeline, fetches,
          pendingChecks, purchases, results, buyTransactions, hist,
          LOOP_TIME_MS, timeoutTimer, request, invocation, lookup, previous>>

-----------------------------------------------------------------------------
(* Bounds of the model *)

\* posts published while the bot runs (all handles together)
MaxPosts == 2
\* getUserTweets calls and delayed checks of the cycling phase in flight together
MaxInFlight == 2
\* number of the first post of the TweetSource; ids are decimal strings of
\* consecutive numbers, chosen so that "9" -> "10" changes the string length
FirstPostNum == 9

-----------------------------------------------------------------------------
(* JavaScript string primitives *)

Digits == <<"0", "1", "2", "3", "4", "5", "6", "7", "8", "9">>

IsDigit(c) == \E d \in 1..10 : Digits[d] = c

DigitVal(c) == (CHOOSE d \in 1..10 : Digits[d] = c) - 1

\* the value JavaScript's NaN is represented by (ids are never negative)
NaN == -1

IsNaN(n) == n = NaN

RECURSIVE ParseDigits(_, _, _)
ParseDigits(s, i, acc) ==
    IF i > Len(s) \/ ~IsDigit(s[i])
    THEN acc
    ELSE ParseDigits(s, i + 1, acc * 10 + DigitVal(s[i]))

\* parseInt(s): the number written by the leading digits of s, NaN if none
ParseInt(s) ==
    IF Len(s) = 0 \/ ~IsDigit(s[1]) THEN NaN ELSE ParseDigits(s, 1, 0)

\* a > b on JavaScript numbers: false when either side is NaN
NumGreater(a, b) == ~IsNaN(a) /\ ~IsNaN(b) /\ a > b

RECURSIVE ToDecimal(_)
\* the decimal id string of a post number (what the TweetSource returns as id_str)
ToDecimal(n) ==
    IF n < 10 THEN <<Digits[n + 1]>>
    ELSE Append(ToDecimal(n \div 10), Digits[(n % 10) + 1])

LowerChar(c) ==
    CASE c = "C" -> "c"
      [] c = "O" -> "o"
      [] c = "M" -> "m"
      [] c = "X" -> "x"
      [] OTHER -> c

\* String.prototype.toLowerCase
ToLowerCase(s) == [i \in 1..Len(s) |-> LowerChar(s[i])]

\* String.prototype.includes
Includes(s, sub) ==
    \E i \in 0..(Len(s) - Len(sub)) :
        \A j \in 1..Len(sub) : s[i + j] = sub[j]

RECURSIVE TrimStart(_)
TrimStart(s) ==
    IF Len(s) > 0 /\ s[1] = " " THEN TrimStart(Tail(s)) ELSE s

RECURSIVE TrimEnd(_)
TrimEnd(s) ==
    IF Len(s) > 0 /\ s[Len(s)] = " " THEN TrimEnd(SubSeq(s, 1, Len(s) - 1)) ELSE s

\* String.prototype.trim
Trim(s) == TrimEnd(TrimStart(s))

\* JavaScript's a < b on strings of digits (by code unit, a proper prefix first)
RECURSIVE StrLess(_, _)
StrLess(a, b) ==
    IF Len(b) = 0 THEN FALSE
    ELSE IF Len(a) = 0 THEN TRUE
    ELSE IF a[1] # b[1]
         THEN (IF IsDigit(a[1]) /\ IsDigit(b[1])
               THEN DigitVal(a[1]) < DigitVal(b[1])
               ELSE FALSE)
         ELSE StrLess(Tail(a), Tail(b))

-----------------------------------------------------------------------------
(* Configuration and the TweetSource *)

KwCoin == <<"c", "o">>
KwMoon == <<"m", "o">>

\* tokenCA: string | null
NullCA == "null"

\* JavaScript numbers are IEEE-754 binary64.  A magnitude is a sequence of bits,
\* least significant first and without leading zeros; a number is
\* (-1)^neg * mant * 2^exp with mant of at most 53 bits.
HexDigits ==
    <<"0", "1", "2", "3", "4", "5", "6", "7", "8", "9", "A", "B", "C", "D", "E", "F">>

HexDigitBits(c) ==
    LET v == (CHOOSE d \in 1..16 : HexDigits[d] = c) - 1
    IN <<v % 2, (v \div 2) % 2, (v \div 4) % 2, (v \div 8) % 2>>

RECURSIVE Significant(_)
\* the bits without leading zeros
Significant(bits) ==
    IF bits = <<>> \/ bits[Len(bits)] = 1 THEN bits
    ELSE Significant(SubSeq(bits, 1, Len(bits) - 1))

RECURSIVE HexBits(_)
\* the bits of a hexadecimal numeral written most significant digit first
HexBits(hex) ==
    IF hex = <<>> THEN <<>> ELSE HexBits(Tail(hex)) \o HexDigitBits(Head(hex))

Pow2(k) == [i \in 0..15 |-> CASE i = 0 -> 1 [] i = 1 -> 2 [] i = 2 -> 4 [] i = 3 -> 8
                               [] i = 4 -> 16 [] i = 5 -> 32 [] i = 6 -> 64
                               [] i = 7 -> 128 [] i = 8 -> 256 [] i = 9 -> 512
                               [] i = 10 -> 1024 [] i = 11 -> 2048 [] i = 12 -> 4096
                               [] i = 13 -> 8192 [] i = 14 -> 16384
                               [] OTHER -> 32768][k]

\* 2^15, the base of the limbs the products are computed in
LimbBase == Pow2(15)

\* bit i (from 1) of a magnitude, 0 beyond its length
BitAt(bits, i) == IF i <= Len(bits) THEN bits[i] ELSE 0

\* the value of the 15 bits of a magnitude that start after bit `from`
LimbAt(bits, from) ==
    LET b(j) == BitAt(bits, from + j) * Pow2(j - 1)
    IN b(1) + b(2) + b(3) + b(4) + b(5) + b(6) + b(7) + b(8) + b(9) + b(10)
       + b(11) + b(12) + b(13) + b(14) + b(15)

\* a magnitude as limbs of 15 bits, least significant first
BitsToLimbs(bits) ==
    [i \in 1..((Len(bits) + 14) \div 15) |-> LimbAt(bits, 15 * (i - 1))]

LimbsToBits(limbs) ==
    LET bits == [i \in 1..(15 * Len(limbs)) |->
                    (limbs[((i - 1) \div 15) + 1] \div Pow2((i - 1) % 15)) % 2]
    IN IF \A i \in 1..Len(bits) : bits[i] = 0 THEN <<>> ELSE Significant(bits)

RECURSIVE MulLimb(_, _, _)
\* limbs times one limb m, plus carry
MulLimb(limbs, m, carry) ==
    IF limbs = <<>> THEN (IF carry = 0 THEN <<>> ELSE <<carry>>)
    ELSE LET t == Head(limbs) * m + carry
         IN <<t % LimbBase>> \o MulLimb(Tail(limbs), m, t \div LimbBase)

RECURSIVE AddLimbs(_, _, _)
AddLimbs(a, b, carry) ==
    IF a = <<>> /\ b = <<>> THEN (IF carry = 0 THEN <<>> ELSE <<carry>>)
    ELSE LET t == (IF a = <<>> THEN 0 ELSE Head(a))
                  + (IF b = <<>> THEN 0 ELSE Head(b)) + carry
         IN <<t % LimbBase>> \o AddLimbs(IF a = <<>> THEN a ELSE Tail(a),
                                          IF b = <<>> THEN b ELSE Tail(b),
                                          t \div LimbBase)

\* the exact product of a magnitude and a natural number below 2^30
MulBits(bits, n) ==
    LET limbs == BitsToLimbs(bits)
    IN LimbsToBits(AddLimbs(MulLimb(limbs, n % LimbBase, 0),
                            <<0>> \o MulLimb(limbs, n \div LimbBase, 0), 0))

\* the value of a magnitude below 2^31
BitsToNat(bits) ==
    LimbAt(bits, 0) + LimbBase * LimbAt(bits, 15) + LimbBase * LimbBase * BitAt(bits, 31)

\* a magnitude times 2^k, k >= 0
ShiftLeft(bits, k) ==
    IF bits = <<>> THEN bits ELSE [i \in 1..k |-> 0] \o bits

\* a magnitude plus one
Increment(bits) ==
    IF \A i \in 1..Len(bits) : bits[i] = 1
    THEN [i \in 1..Len(bits) |-> 0] \o <<1>>
    ELSE LET z == CHOOSE i \in 1..Len(bits) :
                      bits[i] = 0 /\ \A j \in 1..(i - 1) : bits[j] = 1
         IN [i \in 1..Len(bits) |-> IF i < z THEN 0 ELSE IF i = z THEN 1 ELSE bits[i]]

\* an exact magnitude rounded to 53 significant bits, ties to even: the double
\* mant * 2^exp nearest to bits * 2^exp0
RoundToDouble(bits, exp0) ==
    LET drop == Len(bits) - 53
    IN IF drop <= 0 THEN [mant |-> bits, exp |-> exp0]
       ELSE LET kept == SubSeq(bits, drop + 1, Len(bits))
                guard == bits[drop]
                sticky == \E i \in 1..(drop - 1) : bits[i] = 1
                up == guard = 1 /\ (sticky \/ kept[1] = 1)
            IN [mant |-> IF up THEN Increment(kept) ELSE kept,
                exp |-> exp0 + drop]

\* x * n in double arithmetic, for a double x and a natural number n below 2^30
\* (a double itself)
DoubleTimes(x, n) ==
    LET rounded == RoundToDouble(MulBits(x.mant, n), x.exp)
    IN [neg |-> x.neg, mant |-> rounded.mant, exp |-> rounded.exp]

\* the integer part of a magnitude times 2^exp and whether a fraction is left
IntegerPart(mant, exp) ==
    IF exp >= 0 THEN [int |-> BitsToNat(ShiftLeft(mant, exp)), fraction |-> FALSE]
    ELSE IF -exp >= Len(mant) THEN [int |-> 0, fraction |-> mant # <<>>]
    ELSE [int |-> BitsToNat(SubSeq(mant, 1 - exp, Len(mant))),
          fraction |-> \E i \in 1..(-exp) : mant[i] = 1]

\* MathFloor with the fault of rounding up
MathCeil(x) ==
    LET part == IntegerPart(x.mant, x.exp)
    IN IF x.neg THEN -part.int
       ELSE part.int + (IF part.fraction THEN 1 ELSE 0)

\* Math.floor
MathFloor(x) ==
    LET part == IntegerPart(x.mant, x.exp)
    IN IF x.neg THEN -(part.int + (IF part.fraction THEN 1 ELSE 0))
       ELSE part.int

\* Number.prototype.toString of an integer below 1e21
IntegerToString(n) ==
    IF n < 0 THEN <<"-">> \o ToDecimal(-n) ELSE ToDecimal(n)

\* amountInSOL: NaN, or the double nearest to the configured decimal amount;
\* `tenths` is that decimal amount in units of a tenth of a lamport (1e-10 SOL)
AmountNaN == [nan |-> TRUE, tenths |-> 0, neg |-> FALSE, mant |-> <<>>, exp |-> 0]

Amount(tenths, neg, hex, exp) ==
    [nan |-> FALSE, tenths |-> tenths, neg |-> neg,
     mant |-> Significant(HexBits(hex)), exp |-> exp]

\* DEFAULT_BUY_AMOUNT = 0.0001 SOL
DEFAULT_BUY_AMOUNT ==
    Amount(1000000, FALSE,
           <<"1", "A", "3", "6", "E", "2", "E", "B", "1", "C", "4", "3", "2", "D">>, -66)

\* two pairs that share one handle and differ in the keyword; the first buys a
\* token on a match, the second only reports the match
ConfigShared ==
    << [username |-> "alice", keyword |-> KwCoin, tokenCA |-> "CA1",
        buyAmount |-> DEFAULT_BUY_AMOUNT],
       [username |-> "alice", keyword |-> KwMoon, tokenCA |-> NullCA,
        buyAmount |-> DEFAULT_BUY_AMOUNT] >>

\* one pair that buys a token on a match
ConfigSingle ==
    << [username |-> "alice", keyword |-> KwCoin, tokenCA |-> "CA1",
        buyAmount |-> DEFAULT_BUY_AMOUNT] >>

\* two pairs that share one handle and differ in the keyword; each buys its own
\* token on a match
ConfigBuyers ==
    << [username |-> "alice", keyword |-> KwCoin, tokenCA |-> "CA1",
        buyAmount |-> DEFAULT_BUY_AMOUNT],
       [username |-> "alice", keyword |-> KwMoon, tokenCA |-> "CA2",
        buyAmount |-> DEFAULT_BUY_AMOUNT] >>

\* two pairs that share one handle and only report their matches
ConfigReport ==
    << [username |-> "alice", keyword |-> KwCoin, tokenCA |-> NullCA,
        buyAmount |-> DEFAULT_BUY_AMOUNT],
       [username |-> "alice", keyword |-> KwMoon, tokenCA |-> NullCA,
        buyAmount |-> DEFAULT_BUY_AMOUNT] >>

Configs == {ConfigShared}

Handles == {"alice"}

\* post texts: "Co" holds only the keyword "co" (up to case), "mo" only "mo"
TextCoin == <<"C", "o">>
TextMoon == <<"m", "o">>
Texts == {TextCoin, TextMoon}

Builds == {"service", "part002"}

NumConfigs == Len(monitoringConfig)

ConfigHandles == {monitoringConfig[i].username : i \in 1..NumConfigs}

\* `${config.username}-${config.keyword}`
PairKey(config) == <<config.username, config.keyword>>

\* posts published since the bot was started (every account starts with one post)
NewPosts ==
    LET RECURSIVE Sum(_)
        Sum(hs) == IF hs = {} THEN 0
                   ELSE LET h == CHOOSE x \in hs : TRUE
                        IN (Len(timeline[h]) - 1) + Sum(hs \ {h})
    IN Sum(Handles)

\* how a getUserTweets call ends: callback(null, tweets) with the latest post,
\* callback(null, []) when no extraction strategy finds a post, callback(err, null)
Replies == {"tweets", "empty", "error"}

\* the tweets a reply carries: the latest post when `snap` posts existed
TweetsAt(h, snap, reply) ==
    IF snap = 0 \/ reply # "tweets" THEN <<>>
    ELSE << [id_str |-> ToDecimal(timeline[h][snap].num),
             full_text |-> timeline[h][snap].text] >>

\* lastProcessedTweetIds[username]; a missing key reads as undefined
Undefined == <<"undefined">>

LastTweetId(h) ==
    IF h \in DOMAIN lastProcessedTweetIds THEN lastProcessedTweetIds[h]
    ELSE Undefined

\* JavaScript truthiness of a string | undefined
Truthy(s) == s # Undefined /\ Len(s) > 0

\* lastProcessedTweetIds[username] = id
SetBaseline(map, h, id) ==
    [x \in (DOMAIN map) \cup {h} |-> IF x = h THEN id ELSE map[x]]

-----------------------------------------------------------------------------
(* MonitoringService: state after construction *)

\* history of the last handler that ran: the operation, the pair it ran for, the
\* id of the post it saw, the baseline it read and what it decided
Event(op, cfg, id, base, verdict) ==
    [op |-> op, cfg |-> cfg, id |-> id, base |-> base, verdict |-> verdict,
     submits |-> 0]

NoEvent == Event("none", 0, <<>>, <<>>, "none")

\* no getUserTweets call under study
NoRequest == [pc |-> "none"]

\* no executeTokenPurchase invocation under study
NoInvocation == [pc |-> "none"]

\* no getUserId call under study
NoLookup == [pc |-> "none"]

\* no session has been restarted: no callback of an earlier session is pending
NoPrevious == [restarts |-> 0, initPc |-> <<>>, count |-> 0]

\* the fields set by the field initializers, the TweetSource and the two log files
ConstructedFields ==
    /\ proc = "running"
    /\ isMonitoring = FALSE
    /\ monitoringInterval = FALSE
    /\ activePairs = {}
    /\ userConfigsWithIds = <<>>
    /\ currentUserIndex = 0
    /\ lastProcessedTweetIds = <<>>
    /\ initPc = [i \in 1..NumConfigs |-> "idle"]
    /\ initializedCount = 0
    /\ timeline = [h \in Handles |-> << [num |-> FirstPostNum, text |-> TextCoin] >>]
    /\ fetches = EmptyBag
    /\ pendingChecks = EmptyBag
    /\ purchases = EmptyBag
    /\ results = <<>>
    /\ buyTransactions = <<>>
    /\ hist = [evals |-> EmptyBag, initial |-> {}, matched |-> {},
               purchaseCalls |-> EmptyBag, matchCalls |-> EmptyBag,
               notifications |-> <<>>, last |-> NoEvent]
    /\ timeoutTimer = FALSE

\* the fields of a MonitoringService after construction, the TweetSource and the
\* two log files, with both credentials set
Constructed ==
    /\ solanaService = TRUE
    /\ ConstructedFields

\* the program as configured by default (LOOP_TIME unset: no deadline), left to
\* run without a stop signal
Init ==
    /\ build \in Builds
    /\ monitoringConfig \in Configs
    /\ Constructed
    /\ LOOP_TIME_MS = 0
    /\ request = NoRequest
    /\ invocation = NoInvocation
    /\ lookup = NoLookup
    /\ previous = NoPrevious

-----------------------------------------------------------------------------
(* The scheduler fields as one record, for the operations that rewrite them *)

Sched ==
    [isMonitoring |-> isMonitoring, monitoringInterval |-> monitoringInterval,
     activePairs |-> activePairs, userConfigsWithIds |-> userConfigsWithIds,
     currentUserIndex |-> currentUserIndex, proc |-> proc,
     timeoutTimer |-> timeoutTimer]

SetSched(r) ==
    /\ isMonitoring' = r.isMonitoring
    /\ monitoringInterval' = r.monitoringInterval
    /\ activePairs' = r.activePairs
    /\ userConfigsWithIds' = r.userConfigsWithIds
    /\ currentUserIndex' = r.currentUserIndex
    /\ proc' = r.proc
    /\ timeoutTimer' = r.timeoutTimer

\* Stop with the fault of leaving the cycling index where it was
StopKeepsIndex(r) ==
    [r EXCEPT !.monitoringInterval = FALSE, !.activePairs = {},
              !.userConfigsWithIds = <<>>,
              !.timeoutTimer = FALSE, !.isMonitoring = FALSE]

\* stop(): clears the cycling timer, the active set, the cycling list, the index
\* and the deadline timer
Stop(r) ==
    [r EXCEPT !.monitoringInterval = FALSE, !.activePairs = {},
              !.userConfigsWithIds = <<>>, !.currentUserIndex = 0,
              !.timeoutTimer = FALSE, !.isMonitoring = FALSE]

\* userConfigsWithIds.filter(c => !(c.username === username && c.keyword === keyword))
FilterOut(list, config) ==
    SelectSeq(list, LAMBDA n :
        ~(monitoringConfig[n].username = config.username
          /\ monitoringConfig[n].keyword = config.keyword))

\* stopMonitoringPair(config); the last pair stops everything and exits
StopMonitoringPair(r, config) ==
    LET removed == [r EXCEPT !.activePairs = @ \ {PairKey(config)},
                             !.userConfigsWithIds = FilterOut(@, config)]
    IN IF removed.activePairs = {}
       THEN [Stop(removed) EXCEPT !.proc = "exited"]
       ELSE removed

\* setInterval(..) of startCyclingMonitoring
StartCyclingMonitoring(r) == [r EXCEPT !.monitoringInterval = TRUE]

\* CountInitialized with the fault of starting the cycling at the first pair that
\* finishes
CountInitializedFirst(r) == StartCyclingMonitoring(r)

\* initializedCount++; if (initializedCount === totalUsers) startCyclingMonitoring()
CountInitialized(r) ==
    IF initializedCount + 1 = NumConfigs THEN StartCyclingMonitoring(r) ELSE r

-----------------------------------------------------------------------------
(* start() and initializeAllUsers() *)

Remember(ev) == [hist EXCEPT !.last = ev]

\* a getUserTweets call in flight; the reply is the latest post at the time of
\* the request, delivered after an arbitrary delay
Fetch(kind, n) ==
    [kind |-> kind, cfg |-> n, snap |-> Len(timeline[monitoringConfig[n].username])]

\* DeadlineConfigured with the fault of setting the timer for LOOP_TIME_MS = 0 too
DeadlineAlwaysConfigured(loopTimeMs) == loopTimeMs >= 0

\* if (LOOP_TIME_MS > 0) this.timeoutTimer = setTimeout(..., LOOP_TIME_MS)
DeadlineConfigured(loopTimeMs) == loopTimeMs > 0

\* start(): every configured pair becomes active, the deadline timer is set when
\* a deadline is configured, every identifier lookup starts
Start ==
    /\ proc = "running"
    /\ ~isMonitoring
    /\ \A i \in 1..NumConfigs : initPc[i] = "idle"
    /\ isMonitoring' = TRUE
    /\ activePairs' = {PairKey(monitoringConfig[i]) : i \in 1..NumConfigs}
    /\ initPc' = [i \in 1..NumConfigs |-> "resolving"]
    /\ initializedCount' = 0
    /\ timeoutTimer' = DeadlineConfigured(LOOP_TIME_MS)
    /\ hist' = Remember(Event("start", 0, <<>>, <<>>, "none"))
    /\ UNCHANGED <<LOOP_TIME_MS, request, invocation, lookup, previous>>
    /\ UNCHANGED <<build, monitoringConfig, solanaService, proc, monitoringInterval,
                   userConfigsWithIds, currentUserIndex, lastProcessedTweetIds,
                   timeline, fetches, pendingChecks, purchases, results,
                   buyTransactions>>

\* GetUserIdFailed with the fault of keeping the pair in the cycling list
GetUserIdFailedButListed(i) ==
    /\ proc = "running"
    /\ initPc[i] = "resolving"
    /\ SetSched(CountInitialized(
           [Sched EXCEPT !.activePairs = @ \ {PairKey(monitoringConfig[i])},
                         !.userConfigsWithIds = Append(@, i)]))
    /\ initializedCount' = initializedCount + 1
    /\ initPc' = [initPc EXCEPT ![i] = "failed"]
    /\ hist' = Remember(Event("userIdFailed", i, <<>>, <<>>, "none"))
    /\ UNCHANGED <<LOOP_TIME_MS, request, invocation, lookup, previous>>
    /\ UNCHANGED <<build, monitoringConfig, solanaService, lastProcessedTweetIds,
                   timeline, fetches, pendingChecks, purchases, results,
                   buyTransactions>>

\* getUserId callback with an error (or, in part_002, an empty user id): the pair
\* leaves the active set and its initialization is over
GetUserIdFailed(i) ==
    /\ proc = "running"
    /\ initPc[i] = "resolving"
    /\ SetSched(CountInitialized(
           [Sched EXCEPT !.activePairs = @ \ {PairKey(monitoringConfig[i])}]))
    /\ initializedCount' = initializedCount + 1
    /\ initPc' = [initPc EXCEPT ![i] = "failed"]
    /\ hist' = Remember(Event("userIdFailed", i, <<>>, <<>>, "none"))
    /\ UNCHANGED <<LOOP_TIME_MS, request, invocation, lookup, previous>>
    /\ UNCHANGED <<build, monitoringConfig, solanaService, lastProcessedTweetIds,
                   timeline, fetches, pendingChecks, purchases, results,
                   buyTransactions>>

\* getUserId callback with a user id: the pair joins the cycling list and its
\* initial baseline fetch is issued
GetUserIdOk(i) ==
    /\ proc = "running"
    /\ initPc[i] = "resolving"
    /\ userConfigsWithIds' = Append(userConfigsWithIds, i)
    /\ fetches' = fetches (+) SetToBag({Fetch("baseline", i)})
    /\ initPc' = [initPc EXCEPT ![i] = "baseline"]
    /\ hist' = Remember(Event("userIdOk", i, <<>>, <<>>, "none"))
    /\ UNCHANGED <<LOOP_TIME_MS, request, invocation, lookup, previous, timeoutTimer>>
    /\ UNCHANGED <<build, monitoringConfig, solanaService, proc, isMonitoring,
                   monitoringInterval, activePairs, currentUserIndex,
                   lastProcessedTweetIds, initializedCount, timeline,
                   pendingChecks, purchases, results, buyTransactions>>

\* currentTweet.id_str || currentTweet.id
TweetId(tweet) == tweet.id_str

\* setInitialBaselineForCycling callback of monitoring-service.ts: the map after it
InitialBaselineService(map, h, ok, tweets) ==
    IF ok /\ Len(tweets) > 0 THEN SetBaseline(map, h, TweetId(tweets[1])) ELSE map

\* setInitialBaselineForCycling callback of part_002: an error, an empty reply or
\* a post without id stores the empty baseline
InitialBaselinePart002(map, h, ok, tweets) ==
    IF ok /\ Len(tweets) > 0 /\ Truthy(TweetId(tweets[1]))
    THEN SetBaseline(map, h, TweetId(tweets[1]))
    ELSE SetBaseline(map, h, <<>>)

SetInitialBaselineForCycling(map, h, ok, tweets) ==
    IF build = "service" THEN InitialBaselineService(map, h, ok, tweets)
    ELSE InitialBaselinePart002(map, h, ok, tweets)

\* the reply to an initial baseline fetch arrives
BaselineResponse(f, reply) ==
    /\ proc = "running"
    /\ BagIn(f, fetches)
    /\ f.kind = "baseline"
    /\ LET h == monitoringConfig[f.cfg].username
           ok == reply # "error"
           tweets == TweetsAt(h, f.snap, reply)
           recorded == ok /\ Len(tweets) > 0 /\ Truthy(TweetId(tweets[1]))
       IN /\ lastProcessedTweetIds' =
                 SetInitialBaselineForCycling(lastProcessedTweetIds, h, ok, tweets)
          /\ hist' = [hist EXCEPT
                 !.initial = IF recorded THEN @ \cup {<<h, TweetId(tweets[1])>>} ELSE @,
                 !.last = Event("baseline", f.cfg,
                                IF recorded THEN TweetId(tweets[1]) ELSE <<>>,
                                LastTweetId(h),
                                IF recorded THEN "recorded"
                                ELSE IF build = "part002" THEN "cleared"
                                ELSE "none")]
    /\ fetches' = fetches (-) SetToBag({f})
    /\ SetSched(CountInitialized(Sched))
    /\ initializedCount' = initializedCount + 1
    /\ initPc' = [initPc EXCEPT ![f.cfg] = "done"]
    /\ UNCHANGED <<LOOP_TIME_MS, request, invocation, lookup, previous>>
    /\ UNCHANGED <<build, monitoringConfig, solanaService, timeline, pendingChecks,
                   purchases, results, buyTransactions>>

-----------------------------------------------------------------------------
(* The cycling timer *)

InFlight == BagCardinality(fetches) + BagCardinality(pendingChecks)

\* setInterval callback of monitoring-service.ts.  It reads
\* userConfigsWithIds[currentUserIndex].username before the length check: on an
\* undefined entry that is an uncaught TypeError, which ends the process.
TickService ==
    /\ build = "service"
    /\ proc = "running"
    /\ monitoringInterval
    /\ IF currentUserIndex >= Len(userConfigsWithIds)
       THEN /\ proc' = "crashed"
            /\ hist' = Remember(Event("tick", 0, <<>>, <<>>, "TypeError"))
            /\ UNCHANGED <<currentUserIndex, fetches>>
       ELSE LET n == userConfigsWithIds[currentUserIndex + 1]
            IN /\ InFlight < MaxInFlight
               /\ fetches' = fetches (+) SetToBag({Fetch("check", n)})
               /\ currentUserIndex' =
                      (currentUserIndex + 1) % Len(userConfigsWithIds)
               /\ hist' = Remember(Event("tick", n, <<>>, <<>>, "fetch"))
               /\ proc' = proc
    /\ UNCHANGED <<LOOP_TIME_MS, request, invocation, lookup, previous, timeoutTimer>>
    /\ UNCHANGED <<build, monitoringConfig, solanaService, isMonitoring,
                   monitoringInterval, activePairs, userConfigsWithIds,
                   lastProcessedTweetIds, initPc, initializedCount, timeline,
                   pendingChecks, purchases, results, buyTransactions>>

\* setInterval callback of part_002: the check of the current entry is delayed by
\* a setTimeout that keeps the entry it was given
TickPart002 ==
    /\ build = "part002"
    /\ proc = "running"
    /\ monitoringInterval
    /\ Len(userConfigsWithIds) > 0
    /\ IF currentUserIndex < Len(userConfigsWithIds)
       THEN /\ InFlight < MaxInFlight
            /\ pendingChecks' = pendingChecks (+)
                   SetToBag({userConfigsWithIds[currentUserIndex + 1]})
            /\ hist' = Remember(Event("tick", userConfigsWithIds[currentUserIndex + 1],
                                      <<>>, <<>>, "delay"))
       ELSE /\ hist' = Remember(Event("tick", 0, <<>>, <<>>, "none"))
            /\ UNCHANGED pendingChecks
    /\ currentUserIndex' = (currentUserIndex + 1) % Len(userConfigsWithIds)
    /\ UNCHANGED <<LOOP_TIME_MS, request, invocation, lookup, previous, timeoutTimer>>
    /\ UNCHANGED <<build, monitoringConfig, solanaService, proc, isMonitoring,
                   monitoringInterval, activePairs, userConfigsWithIds,
                   lastProcessedTweetIds, initPc, initializedCount, timeline,
                   fetches, purchases, results, buyTransactions>>

\* the setTimeout of a part_002 tick fires: checkForNewTweets(currentConfig)
DelayedCheck(n) ==
    /\ proc = "running"
    /\ BagIn(n, pendingChecks)
    /\ pendingChecks' = pendingChecks (-) SetToBag({n})
    /\ fetches' = fetches (+) SetToBag({Fetch("check", n)})
    /\ hist' = Remember(Event("delayedCheck", n, <<>>, <<>>, "fetch"))
    /\ UNCHANGED <<LOOP_TIME_MS, request, invocation, lookup, previous, timeoutTimer>>
    /\ UNCHANGED <<build, monitoringConfig, solanaService, proc, isMonitoring,
                   monitoringInterval, activePairs, userConfigsWithIds,
                   currentUserIndex, lastProcessedTweetIds, initPc,
                   initializedCount, timeline, purchases, results, buyTransactions>>

-----------------------------------------------------------------------------
(* checkForNewTweets: the getUserTweets callback *)

\* IsNewer with the fault of comparing the ids as strings
IsNewerLexicographic(currentTweetId, lastTweetId) ==
    StrLess(lastTweetId, currentTweetId)

\* IsNewer with the fault of counting an id equal to the baseline as new
IsNewerOrEqual(currentTweetId, lastTweetId) ==
    ~NumGreater(ParseInt(lastTweetId), ParseInt(currentTweetId))

\* currentIdNum > lastIdNum, both read by parseInt
IsNewer(currentTweetId, lastTweetId) ==
    NumGreater(ParseInt(currentTweetId), ParseInt(lastTweetId))

\* HasKeyword with the fault of comparing without lower-casing
HasKeywordCaseSensitive(keyword, text) ==
    \/ Trim(keyword) = <<>>
    \/ Includes(text, keyword)

\* config.keyword.trim() === "" || text.toLowerCase().includes(keyword.toLowerCase())
HasKeyword(keyword, text) ==
    \/ Trim(keyword) = <<>>
    \/ Includes(ToLowerCase(text), ToLowerCase(keyword))

\* currentTweet.full_text || currentTweet.text || ""
TweetText(tweet) == tweet.full_text

\* what the callback of monitoring-service.ts decides for a reply
CheckVerdictService(lastTweetId, ok, tweets, keyword) ==
    IF ~ok \/ Len(tweets) = 0 THEN "return"
    ELSE LET currentTweetId == TweetId(tweets[1])
         IN IF Truthy(lastTweetId) /\ currentTweetId # lastTweetId
            THEN IF IsNewer(currentTweetId, lastTweetId)
                 THEN IF HasKeyword(keyword, TweetText(tweets[1]))
                      THEN "match"
                      ELSE "nomatch"
                 ELSE "skip"
            ELSE "skip"

\* what the callback of part_002 decides for a reply
CheckVerdictPart002(lastTweetId, ok, tweets, keyword) ==
    IF ~ok \/ Len(tweets) = 0 THEN "return"
    ELSE LET currentTweetId == TweetId(tweets[1])
             text == TweetText(tweets[1])
         IN IF ~Truthy(currentTweetId) THEN "return"
            ELSE IF IsNaN(ParseInt(currentTweetId)) THEN "return"
            ELSE IF ~Truthy(lastTweetId) THEN "setBaseline"
            ELSE IF IsNaN(ParseInt(lastTweetId)) THEN "setBaseline"
            ELSE IF IsNewer(currentTweetId, lastTweetId)
                 THEN IF Trim(text) = <<>> THEN "emptyText"
                      ELSE IF HasKeyword(keyword, text) THEN "match"
                      ELSE "nomatch"
                 ELSE "skip"

CheckVerdict(lastTweetId, ok, tweets, keyword) ==
    IF build = "service"
    THEN CheckVerdictService(lastTweetId, ok, tweets, keyword)
    ELSE CheckVerdictPart002(lastTweetId, ok, tweets, keyword)

\* the verdicts on which the callback stores currentTweetId as the baseline
AdvancesBaseline(verdict) ==
    verdict \in {"setBaseline", "emptyText", "nomatch", "match"}

\* the verdicts on which the keyword was evaluated against the post
Evaluates(verdict) == verdict \in {"nomatch", "match"}

\* BaselineAfterCheck with the fault of advancing the baseline only on a match
BaselineOnMatchOnly(map, h, currentTweetId, verdict) ==
    IF verdict \in {"setBaseline", "match"}
    THEN SetBaseline(map, h, currentTweetId) ELSE map

\* lastProcessedTweetIds after the callback
BaselineAfterCheck(map, h, currentTweetId, verdict) ==
    IF AdvancesBaseline(verdict) THEN SetBaseline(map, h, currentTweetId) ELSE map

\* the TweetResult saved on a match; an optional field that holds a value of
\* another type than a string is a sequence of at most one value
MatchEvent(config, tweet) ==
    [username |-> config.username, keyword |-> config.keyword,
     tokenCA |-> config.tokenCA, tweetText |-> TweetText(tweet),
     tweetId |-> TweetId(tweet), purchaseExecuted |-> "unset",
     purchaseError |-> "unset", purchaseAmount |-> <<>>, buyTxId |-> "unset"]

\* PurchaseWanted with the fault of not asking whether trading is enabled
PurchaseWantedWithToken(config) == config.tokenCA # NullCA

\* result.tokenCA && this.solanaService
PurchaseWanted(config) == config.tokenCA # NullCA /\ solanaService

\* on a match: stopMonitoringPair runs in the same step only when no purchase is
\* awaited; otherwise the callback is suspended at the await
SchedAfterMatch(r, config) ==
    IF PurchaseWanted(config) THEN r ELSE StopMonitoringPair(r, config)

\* the reply to a cycling fetch arrives
CheckResponse(f, reply) ==
    /\ proc = "running"
    /\ BagIn(f, fetches)
    /\ f.kind = "check"
    /\ fetches' = fetches (-) SetToBag({f})
    /\ LET config == monitoringConfig[f.cfg]
           h == config.username
           ok == reply # "error"
           tweets == TweetsAt(h, f.snap, reply)
           last == LastTweetId(h)
           verdict == CheckVerdict(last, ok, tweets, config.keyword)
           cur == IF Len(tweets) > 0 THEN TweetId(tweets[1]) ELSE <<>>
       IN /\ lastProcessedTweetIds' =
                 BaselineAfterCheck(lastProcessedTweetIds, h, cur, verdict)
          /\ hist' = [hist EXCEPT
                 !.evals = IF Evaluates(verdict)
                           THEN @ (+) SetToBag({<<h, cur>>}) ELSE @,
                 !.matched = IF verdict = "match" THEN @ \cup {f.cfg} ELSE @,
                 !.purchaseCalls = IF verdict = "match" /\ PurchaseWanted(config)
                                   THEN @ (+) SetToBag({f.cfg}) ELSE @,
                 !.matchCalls = IF verdict = "match" /\ PurchaseWanted(config)
                                THEN @ (+) SetToBag({<<f.cfg, cur>>}) ELSE @,
                 !.last = Event("check", f.cfg, cur, last, verdict)]
          /\ IF verdict = "match"
             THEN /\ results' = Append(results, MatchEvent(config, tweets[1]))
                  /\ purchases' =
                        IF PurchaseWanted(config)
                        THEN purchases (+) SetToBag({[cfg |-> f.cfg,
                                 result |-> MatchEvent(config, tweets[1]),
                                 stage |-> "buying"]})
                        ELSE purchases
                  /\ SetSched(SchedAfterMatch(Sched, config))
             ELSE /\ UNCHANGED <<results, purchases>>
                  /\ SetSched(Sched)
    /\ UNCHANGED <<LOOP_TIME_MS, request, invocation, lookup, previous>>
    /\ UNCHANGED <<build, monitoringConfig, solanaService, initPc, initializedCount,
                   timeline, pendingChecks, buyTransactions>>

-----------------------------------------------------------------------------
(* SolanaService.executeTokenPurchase *)

\* InvalidAmount with the fault of rejecting NaN only
InvalidAmountNaNOnly(amountInSOL) == amountInSOL.nan

\* isNaN(amountInSOL) || amountInSOL <= 0
InvalidAmount(amountInSOL) ==
    amountInSOL.nan \/ amountInSOL.neg \/ amountInSOL.mant = <<>>

\* Math.floor(amountInSOL * 1e9).toString(), for a positive amount
AmountIn(amountInSOL) ==
    IntegerToString(MathFloor(DoubleTimes(amountInSOL, 1000000000)))

\* JupiterAPI.getQuote: isNaN(amountInt) || amountInt <= 0 throws before any request
QuoteAmountRejected(amount) ==
    LET amountInt == ParseInt(amount)
    IN IsNaN(amountInt) \/ amountInt <= 0

\* the steps of the try block in the order of the code; `request` says whether
\* the step sends a request to a remote service (RPC node, Jupiter, relay)
Pipeline ==
    << [name |-> "getSlot",          request |-> TRUE],
       [name |-> "quoteAmount",      request |-> FALSE],
       [name |-> "quote",            request |-> TRUE],
       [name |-> "quoteCheck",       request |-> FALSE],
       [name |-> "swapInstructions", request |-> TRUE],
       [name |-> "deserialize",      request |-> FALSE],
       [name |-> "lookupTables",     request |-> TRUE],
       [name |-> "latestBlockhash",  request |-> TRUE],
       [name |-> "buildTransaction", request |-> FALSE],
       [name |-> "relaySubmit",      request |-> TRUE],
       [name |-> "resultCheck",      request |-> FALSE] >>

\* what goes wrong in one invocation: at most one step meets a fault
NoFault == [stage |-> "none", kind |-> "none"]

Fault(stage, kind) == [stage |-> stage, kind |-> kind]

\* "reject": the request fails (network error, RPC error);
\* "httpError": node-fetch answers with !response.ok; "badJson": response.json()
\* rejects; "nullQuote": the body is null, so getQuote throws on data.outAmount;
\* "noOutAmount": the quote carries no outAmount; "malformed": an
\* instruction payload is missing; "invalidKey": new PublicKey throws before the
\* request; "throw": compiling or signing throws; "noResult": the relay answers
\* HTTP 200 with an error field; "noData": the relay's response has no body;
\* "httpErrorWithResult": the relay answers HTTP 500 with a result field;
\* "httpErrorWithError": the relay answers HTTP 500 with an error field
Faults ==
    {NoFault}
    \cup {Fault("getSlot", "reject")}
    \cup {Fault("quote", k) :
             k \in {"reject", "httpError", "badJson", "noOutAmount", "nullQuote"}}
    \cup {Fault("swapInstructions", k) : k \in {"reject", "httpError", "badJson"}}
    \cup {Fault("deserialize", "malformed")}
    \cup {Fault("lookupTables", k) : k \in {"reject", "invalidKey"}}
    \cup {Fault("latestBlockhash", "reject")}
    \cup {Fault("buildTransaction", "throw")}
    \cup {Fault("relaySubmit", k) :
             k \in {"reject", "noResult", "noData", "httpErrorWithResult",
                    "httpErrorWithError"}}

\* the faults that throw inside the step they belong to
Throwing ==
    {"reject", "httpError", "badJson", "nullQuote", "malformed", "invalidKey", "throw"}

\* the faults that throw before the step's request is sent
BeforeRequest == {"invalidKey"}

\* the quote getQuote returns
NullQuote == [null |-> TRUE, outAmount |-> <<>>]

QuoteOf(fault) ==
    IF fault = Fault("quote", "nullQuote") THEN NullQuote
    ELSE IF fault = Fault("quote", "noOutAmount") THEN [null |-> FALSE, outAmount |-> <<>>]
    ELSE [null |-> FALSE, outAmount |-> <<"1">>]

\* QuoteUsable with the fault of accepting any quote
QuoteAlwaysUsable(quote) == TRUE

\* !(!quote || !quote.outAmount)
QuoteUsable(quote) == ~quote.null /\ Truthy(quote.outAmount)

\* InTry with the fault of opening the try block after the RPC check
InTryAfterRpcCheck(step) == step # "getSlot"

\* every step lies inside try { .. } catch (error) { return false }
InTry(step) == TRUE

\* astralaneResponse.result of a successful submission
BuyTxId == "sig"

\* the relay's HTTP response: its status and its body (null, or an object with a
\* result field, "" when absent, and possibly an error field)
RelayReply(status, null, result, error) ==
    [status |-> status, null |-> null, result |-> result, error |-> error]

RelayReplyOf(fault) ==
    IF fault = Fault("relaySubmit", "noResult") THEN RelayReply(200, FALSE, "", TRUE)
    ELSE IF fault = Fault("relaySubmit", "noData") THEN RelayReply(200, TRUE, "", FALSE)
    ELSE IF fault = Fault("relaySubmit", "httpErrorWithResult")
         THEN RelayReply(500, FALSE, BuyTxId, FALSE)
    ELSE IF fault = Fault("relaySubmit", "httpErrorWithError")
         THEN RelayReply(500, FALSE, "", TRUE)
    ELSE RelayReply(200, FALSE, BuyTxId, FALSE)

\* axios' default validateStatus: the promise of axios.post resolves for a 2xx
\* status and rejects for any other
AxiosResolves(status) == status >= 200 /\ status < 300

\* if (astralaneResponse.result)
ResultPresent(reply) == reply.result # ""

\* how a step ends: "ok", "throw", "returnFalse" or "returnResult"
StepOutcome(step, amountInSOL, fault) ==
    CASE step = "quoteAmount" ->
             IF QuoteAmountRejected(AmountIn(amountInSOL)) THEN "throw" ELSE "ok"
      [] step = "quoteCheck" ->
             IF QuoteUsable(QuoteOf(fault)) THEN "ok" ELSE "returnFalse"
      [] step = "relaySubmit" ->
             IF fault = Fault("relaySubmit", "reject") THEN "throw"
             ELSE IF AxiosResolves(RelayReplyOf(fault).status) THEN "ok" ELSE "throw"
      [] step = "resultCheck" ->
             IF RelayReplyOf(fault).null THEN "throw"
             ELSE IF ResultPresent(RelayReplyOf(fault)) THEN "returnResult"
             ELSE "returnFalse"
      [] OTHER ->
             IF fault.stage = step /\ fault.kind \in Throwing THEN "throw" ELSE "ok"

\* how the promise settles: resolved with "false" or with a PurchaseResult (its
\* buyTxId), or rejected; `calls` are the requests sent, in order
Settled(settled, value, calls) ==
    [settled |-> settled, value |-> value, calls |-> calls]

RECURSIVE RunFrom(_, _, _, _)
RunFrom(k, calls, amountInSOL, fault) ==
    LET step == Pipeline[k]
        sent == IF step.request
                   /\ ~(fault.stage = step.name /\ fault.kind \in BeforeRequest)
                THEN Append(calls, step.name) ELSE calls
        outcome == StepOutcome(step.name, amountInSOL, fault)
    IN CASE outcome = "ok" -> RunFrom(k + 1, sent, amountInSOL, fault)
         [] outcome = "throw" ->
                IF InTry(step.name) THEN Settled("resolved", "false", sent)
                ELSE Settled("rejected", "error", sent)
         [] outcome = "returnFalse" -> Settled("resolved", "false", sent)
         [] outcome = "returnResult" ->
                Settled("resolved", RelayReplyOf(fault).result, sent)

ExecuteTokenPurchase(tokenCA, amountInSOL, fault) ==
    IF InvalidAmount(amountInSOL) THEN Settled("resolved", "false", <<>>)
    ELSE RunFrom(1, <<>>, amountInSOL, fault)

\* MIN_TIP_AMOUNT = 100_000 lamports
MIN_TIP_AMOUNT == 100000

\* an instruction: `form` is "payload" as the provider returns it (base64 data,
\* string keys) and "instruction" once it is a TransactionInstruction
Instruction(programId, form, lamports) ==
    [programId |-> programId, form |-> form, lamports |-> lamports]

IxPayload(programId) == Instruction(programId, "payload", 0)

\* deserializeInstruction: new TransactionInstruction({programId, keys, data})
DeserializeInstruction(instruction) == [instruction EXCEPT !.form = "instruction"]

\* SystemProgram.transfer({fromPubkey: buyer, toPubkey: TIP, lamports: MIN_TIP_AMOUNT})
TipIx == Instruction("SystemProgram.transfer:TIP", "instruction", MIN_TIP_AMOUNT)

\* instructions.map(deserializeInstruction)
RECURSIVE MapDeserialize(_)
MapDeserialize(payloads) ==
    IF payloads = <<>> THEN <<>>
    ELSE <<DeserializeInstruction(Head(payloads))>> \o MapDeserialize(Tail(payloads))

\* the array swapInstructions built from the provider's answer
SwapInstructions(instructions) ==
    MapDeserialize(instructions.computeBudgetInstructions)
        \o MapDeserialize(instructions.setupInstructions)
        \o <<DeserializeInstruction(instructions.swapInstruction),
             DeserializeInstruction(instructions.cleanupInstruction)>>

\* WithTip with the fault of putting the tip transfer first
WithTipFirst(ixs) == <<TipIx>> \o ixs

\* sendTxTipped: ixs.push(tipIx)
WithTip(ixs) == Append(ixs, TipIx)

\* GetAddressLookupTableAccounts with the fault of keeping an entry for a table
\* that does not exist
GetAddressLookupTableAccountsAll(keys, accounts) ==
    [k \in 1..Len(keys) |-> [key |-> keys[k], exists |-> keys[k] \in accounts]]

\* getAddressLookupTableAccounts: getMultipleAccountsInfo answers null for an
\* address without account; reduce pushes an entry for every other address
RECURSIVE GetAddressLookupTableAccounts(_, _)
GetAddressLookupTableAccounts(keys, accounts) ==
    IF keys = <<>> THEN <<>>
    ELSE (IF Head(keys) \in accounts
          THEN <<[key |-> Head(keys), exists |-> TRUE]>> ELSE <<>>)
         \o GetAddressLookupTableAccounts(Tail(keys), accounts)

\* no transaction was handed to the relay
NoTransaction == [sent |-> FALSE, instructions |-> <<>>, lookupTables |-> <<>>]

\* the transaction sendTxTipped compiles, signs and posts: the provider's
\* answer `instructions`, the on-chain lookup-table accounts `accounts`
Transaction(instructions, accounts) ==
    [sent |-> TRUE,
     instructions |-> WithTip(SwapInstructions(instructions)),
     lookupTables |-> GetAddressLookupTableAccounts(
                          instructions.addressLookupTableAddresses, accounts)]

\* the number of transactions an invocation handed to the relay
RelaySubmits(run) ==
    Cardinality({k \in 1..Len(run.calls) : run.calls[k] = "relaySubmit"})

\* what the caller and the relay see of an invocation
PurchaseOutcome(run) ==
    [settled |-> run.settled, value |-> run.value, submits |-> RelaySubmits(run)]

\* every pair of every configuration
ConfiguredPairs ==
    UNION {{c[i] : i \in 1..Len(c)} : c \in {ConfigShared, ConfigSingle, ConfigBuyers}}

\* the outcomes executeTokenPurchase can have for a pair, over all faults
PurchaseOutcomes ==
    [config \in ConfiguredPairs |->
        {PurchaseOutcome(ExecuteTokenPurchase(config.tokenCA, config.buyAmount, fault)) :
            fault \in Faults}]

-----------------------------------------------------------------------------
(* The continuation of checkForNewTweets after the awaited purchase *)

\* the record of buy_transactions.json (without its timestamp)
BuyTransaction(result) ==
    [username |-> result.username, keyword |-> result.keyword,
     tokenCA |-> result.tokenCA, buyAmount |-> result.purchaseAmount,
     txId |-> result.buyTxId]

\* result.purchaseExecuted = true; result.purchaseAmount = config.buyAmount;
\* result.buyTxId = purchaseResult.buyTxId
Purchased(result, config, buyTxId) ==
    [result EXCEPT !.purchaseExecuted = "true",
                   !.purchaseAmount = <<config.buyAmount>>,
                   !.buyTxId = buyTxId]

\* result.keyword ? result.keyword : "No keyword"
KeywordOrNone(keyword) == IF Len(keyword) > 0 THEN keyword ELSE <<"No keyword">>

\* the message handed to sendNotification after a successful purchase
Notification(result) ==
    [title |-> "Buy Tx Succeed!", username |-> result.username,
     keyword |-> KeywordOrNone(result.keyword), tokenCA |-> result.tokenCA,
     buyAmount |-> result.purchaseAmount, txId |-> result.buyTxId]

\* the tail of the callback after a successful purchase: the updated result goes
\* to both logs and the pair is stopped
FinishBought(p) ==
    /\ results' = Append(results, p.result)
    /\ buyTransactions' = Append(buyTransactions, BuyTransaction(p.result))
    /\ SetSched(StopMonitoringPair(Sched, monitoringConfig[p.cfg]))

\* FinishFailed with the fault of leaving the pair in the active set
FinishFailedKeepsPair(p) ==
    /\ results' = Append(results, [p.result EXCEPT
                      !.purchaseExecuted = "false",
                      !.purchaseError = "Purchase execution failed"])
    /\ SetSched(Sched)
    /\ UNCHANGED buyTransactions

\* the tail of the callback after a failed purchase: the failure is logged and
\* the pair is stopped
FinishFailed(p) ==
    /\ results' = Append(results, [p.result EXCEPT
                      !.purchaseExecuted = "false",
                      !.purchaseError = "Purchase execution failed"])
    /\ SetSched(StopMonitoringPair(Sched, monitoringConfig[p.cfg]))
    /\ UNCHANGED buyTransactions

\* purchaseResult && purchaseResult.buyTxId
Bought(run) == run.value # "false"

\* the awaited executeTokenPurchase settles with the outcome `run`
PurchaseDone(p, run) ==
    /\ proc = "running"
    /\ BagIn(p, purchases)
    /\ p.stage = "buying"
    /\ run \in PurchaseOutcomes[monitoringConfig[p.cfg]]
    /\    /\ run.settled = "resolved"
          /\ IF Bought(run)
             THEN LET done == [p EXCEPT !.result =
                                 Purchased(@, monitoringConfig[p.cfg], run.value)]
                  IN IF build = "part002"
                     THEN /\ purchases' = (purchases (-) SetToBag({p}))
                                (+) SetToBag({[done EXCEPT !.stage = "notifying"]})
                          /\ SetSched(Sched)
                          /\ UNCHANGED <<results, buyTransactions>>
                     ELSE /\ purchases' = purchases (-) SetToBag({p})
                          /\ FinishBought(done)
             ELSE /\ purchases' = purchases (-) SetToBag({p})
                  /\ FinishFailed(p)
          /\ hist' = [hist EXCEPT
                 !.notifications =
                     IF Bought(run) /\ build = "part002"
                     THEN Append(@, Notification(
                              Purchased(p.result, monitoringConfig[p.cfg], run.value)))
                     ELSE @,
                 !.last = [Event("purchaseDone", p.cfg, p.result.tweetId, <<>>,
                                 IF Bought(run) THEN "bought" ELSE "failed")
                           EXCEPT !.submits = run.submits]]
    /\ UNCHANGED <<LOOP_TIME_MS, request, invocation, lookup, previous>>
    /\ UNCHANGED <<build, monitoringConfig, solanaService, lastProcessedTweetIds,
                   initPc, initializedCount, timeline, fetches, pendingChecks>>

\* part_002: the awaited sendNotification settles.  When its fetch rejects, the
\* async callback rejects: its tail never runs, and the unhandled rejection
\* ends the process or not, depending on the runtime's policy.
NotifyDone(p, threw, fatal) ==
    /\ proc = "running"
    /\ BagIn(p, purchases)
    /\ p.stage = "notifying"
    /\ purchases' = purchases (-) SetToBag({p})
    /\ IF threw
       THEN /\ SetSched([Sched EXCEPT !.proc = IF fatal THEN "crashed" ELSE @])
            /\ UNCHANGED <<results, buyTransactions>>
       ELSE /\ fatal = FALSE
            /\ FinishBought(p)
    /\ hist' = Remember(Event("notifyDone", p.cfg, p.result.tweetId, <<>>,
                              IF threw THEN "rejected" ELSE "sent"))
    /\ UNCHANGED <<LOOP_TIME_MS, request, invocation, lookup, previous>>
    /\ UNCHANGED <<build, monitoringConfig, solanaService, lastProcessedTweetIds,
                   initPc, initializedCount, timeline, fetches, pendingChecks>>

-----------------------------------------------------------------------------
(* The TweetSource environment *)

\* the account `h` publishes a post; ids grow with every post of the account
NewPost(h, text) ==
    /\ proc = "running"
    /\ isMonitoring
    /\ h \in ConfigHandles
    /\ NewPosts < MaxPosts
    /\ timeline' = [timeline EXCEPT ![h] =
           Append(@, [num |-> FirstPostNum + Len(@), text |-> text])]
    /\ hist' = Remember(Event("newPost", 0, ToDecimal(FirstPostNum + Len(timeline[h])),
                              <<>>, "none"))
    /\ UNCHANGED <<LOOP_TIME_MS, request, invocation, lookup, previous, timeoutTimer>>
    /\ UNCHANGED <<build, monitoringConfig, solanaService, proc, isMonitoring,
                   monitoringInterval, activePairs, userConfigsWithIds,
                   currentUserIndex, lastProcessedTweetIds, initPc,
                   initializedCount, fetches, pendingChecks, purchases, results,
                   buyTransactions>>

-----------------------------------------------------------------------------

Next ==
    \/ Start
    \/ \E i \in 1..NumConfigs : GetUserIdFailed(i)
    \/ \E i \in 1..NumConfigs : GetUserIdOk(i)
    \/ \E f \in BagToSet(fetches), reply \in Replies : BaselineResponse(f, reply)
    \/ TickService
    \/ TickPart002
    \/ \E n \in BagToSet(pendingChecks) : DelayedCheck(n)
    \/ \E f \in BagToSet(fetches), reply \in Replies : CheckResponse(f, reply)
    \/ \E p \in BagToSet(purchases) :
           \E run \in PurchaseOutcomes[monitoringConfig[p.cfg]] : PurchaseDone(p, run)
    \/ \E p \in BagToSet(purchases), threw \in BOOLEAN, fatal \in BOOLEAN :
           NotifyDone(p, threw, fatal)
    \/ \E h \in Handles, text \in Texts : NewPost(h, text)

Spec == Init /\ [][Next]_vars

-----------------------------------------------------------------------------
(* The deadline timer and the stop signal *)

\* the variables of the MonitoringService, the TweetSource and the log files
monitorVars ==
    <<build, monitoringConfig, solanaService, proc, isMonitoring,
      monitoringInterval, activePairs, userConfigsWithIds, currentUserIndex,
      lastProcessedTweetIds, initPc, initializedCount, timeline, fetches,
      pendingChecks, purchases, results, buyTransactions, hist, LOOP_TIME_MS,
      timeoutTimer>>

\* LOOP_TIME unset (0) or one minute
LoopTimes == {0, 1 * 60 * 1000}

ConfigsStop == {ConfigSingle}

\* "initializing" until startCyclingMonitoring has set the cycling timer
Phase == IF monitoringInterval THEN "cycling" ELSE "initializing"

\* this.stop(); process.exit(0): the tail of the deadline callback and of the
\* SIGINT handler.  The event keeps the phase and, as cfg, the number of pairs
\* that were active.
StopAndExit(op) ==
    /\ SetSched([Stop(Sched) EXCEPT !.proc = "exited"])
    /\ hist' = Remember(Event(op, Cardinality(activePairs), <<>>, <<>>, Phase))
    /\ UNCHANGED <<build, monitoringConfig, solanaService, lastProcessedTweetIds,
                   initPc, initializedCount, timeline, fetches, pendingChecks,
                   purchases, results, buyTransactions, LOOP_TIME_MS, request,
                   invocation, lookup, previous>>

\* the setTimeout callback of start() fires after LOOP_TIME_MS
DeadlineFires ==
    /\ proc = "running"
    /\ timeoutTimer
    /\ StopAndExit("deadline")

\* process.on("SIGINT", ..) of index.ts, registered right after start()
Sigint ==
    /\ proc = "running"
    /\ isMonitoring
    /\ StopAndExit("sigint")

InitStop ==
    /\ build \in Builds
    /\ monitoringConfig \in ConfigsStop
    /\ Constructed
    /\ LOOP_TIME_MS \in LoopTimes
    /\ request = NoRequest
    /\ invocation = NoInvocation
    /\ lookup = NoLookup
    /\ previous = NoPrevious

NextStop ==
    \/ Next
    \/ DeadlineFires
    \/ Sigint

SpecStop == InitStop /\ [][NextStop]_vars

-----------------------------------------------------------------------------
(* TwitterAPI.getUserTweets: one call and its retries *)

\* const maxRetries = 2
maxRetries == 2

\* the two sources of TwitterAPI: twitter-api.ts retries, part_003 does not
Apis == {"twitterApi", "part003"}

\* how one HTTP request ends: a 429 status, another non-200 status, a body whose
\* message names a rate limit, a body with another message, a body that is no
\* JSON, a body with tweets, a body without tweets, a network error
HttpOutcomes ==
    {"status429", "statusOther", "rateLimitMessage", "otherMessage", "badJson",
     "tweets", "noTweets", "networkError"}

\* part_003 does not read the status: the body alone decides
BodyOutcomes == HttpOutcomes \ {"status429", "statusOther"}

\* the outcomes twitter-api.ts answers with a retry while retries are left
Retryable == {"status429", "rateLimitMessage", "networkError"}

\* CanRetry with the fault of allowing one retry more
CanRetryInclusive(retryCount) == retryCount <= maxRetries

\* retryCount < maxRetries
CanRetry(retryCount) == retryCount < maxRetries

\* what the callback is given: callback(null, tweets) or callback(error, null)
CallbackOf(outcome) ==
    IF outcome \in {"tweets", "noTweets"} THEN "tweets" ELSE "error"

\* whether getUserTweets answers the outcome with setTimeout(retry, retryDelay)
Retries(api, outcome, retryCount) ==
    api = "twitterApi" /\ outcome \in Retryable /\ CanRetry(retryCount)

\* the state right after getUserTweets(userId, callback): the first request is sent
Requested(api) ==
    [pc |-> "inflight", api |-> api, retryCount |-> 0, requests |-> 1,
     attempts |-> <<>>, callbacks |-> <<>>]

\* Respond with the fault of returning without the callback when a retryable
\* outcome meets no retry left
RespondDropsExhausted(outcome) ==
    /\ request.pc = "inflight"
    /\ outcome \in (IF request.api = "twitterApi" THEN HttpOutcomes ELSE BodyOutcomes)
    /\ request' =
          IF Retries(request.api, outcome, request.retryCount)
          THEN [request EXCEPT !.pc = "retryWait",
                               !.attempts = Append(@, outcome)]
          ELSE IF request.api = "twitterApi" /\ outcome \in Retryable
          THEN [request EXCEPT !.pc = "done",
                               !.attempts = Append(@, outcome)]
          ELSE [request EXCEPT !.pc = "done",
                               !.attempts = Append(@, outcome),
                               !.callbacks = Append(@, CallbackOf(outcome))]
    /\ UNCHANGED <<monitorVars, invocation, lookup, previous>>

\* the request in flight ends with `outcome`
Respond(outcome) ==
    /\ request.pc = "inflight"
    /\ outcome \in (IF request.api = "twitterApi" THEN HttpOutcomes ELSE BodyOutcomes)
    /\ request' =
          IF Retries(request.api, outcome, request.retryCount)
          THEN [request EXCEPT !.pc = "retryWait",
                               !.attempts = Append(@, outcome)]
          ELSE [request EXCEPT !.pc = "done",
                               !.attempts = Append(@, outcome),
                               !.callbacks = Append(@, CallbackOf(outcome))]
    /\ UNCHANGED <<monitorVars, invocation, lookup, previous>>

\* the retry timer fires: this.getUserTweets(userId, callback, retryCount + 1)
RetryTimer ==
    /\ request.pc = "retryWait"
    /\ request' = [request EXCEPT !.pc = "inflight",
                                  !.retryCount = @ + 1,
                                  !.requests = @ + 1]
    /\ UNCHANGED <<monitorVars, invocation, lookup, previous>>

InitFetch ==
    /\ build = "service"
    /\ monitoringConfig = ConfigShared
    /\ Constructed
    /\ LOOP_TIME_MS = 0
    /\ request \in {Requested(api) : api \in Apis}
    /\ invocation = NoInvocation
    /\ lookup = NoLookup
    /\ previous = NoPrevious

NextFetch ==
    \/ \E outcome \in HttpOutcomes : Respond(outcome)
    \/ RetryTimer

SpecFetch == InitFetch /\ [][NextFetch]_vars

\* every request ends in a response or a request error, and every retry timer
\* that is set fires
SpecFetchFair == SpecFetch /\ WF_vars(NextFetch)

-----------------------------------------------------------------------------
(* SolanaService.executeTokenPurchase: one invocation *)

TokenCAs == {"CA1", "CA2"}

\* 0.00015 SOL
Amount15e5 ==
    Amount(1500000, FALSE,
           <<"1", "3", "A", "9", "2", "A", "3", "0", "5", "5", "3", "2", "6", "1">>, -65)

\* 0.000000015 SOL: 15 lamports, whose double product is 14.999999999999998
Amount15 ==
    Amount(150, FALSE,
           <<"1", "0", "1", "B", "2", "B", "2", "9", "A", "4", "6", "9", "2", "B">>, -78)

\* 0.0000000015 SOL: one lamport and a half
AmountOneAndHalf ==
    Amount(15, FALSE,
           <<"1", "9", "C", "5", "1", "1", "D", "C", "3", "A", "4", "1", "D", "F">>, -82)

\* 0.0000000005 SOL: half a lamport
AmountHalf ==
    Amount(5, FALSE,
           <<"1", "1", "2", "E", "0", "B", "E", "8", "2", "6", "D", "6", "9", "5">>, -83)

\* -0.000000001 SOL
AmountNegative ==
    Amount(-10, TRUE,
           <<"1", "1", "2", "E", "0", "B", "E", "8", "2", "6", "D", "6", "9", "5">>, -82)

AmountZero == Amount(0, FALSE, <<>>, 0)

Amounts ==
    {AmountNaN, AmountNegative, AmountZero, AmountHalf, AmountOneAndHalf,
     Amount15, Amount15e5, DEFAULT_BUY_AMOUNT}

\* the answers of the swap-instructions request: with and without compute-budget
\* and setup instructions, two lookup-table addresses
SwapAnswers ==
    {[computeBudgetInstructions |-> cb, setupInstructions |-> setup,
      swapInstruction |-> IxPayload("swap"),
      cleanupInstruction |-> IxPayload("cleanup"),
      addressLookupTableAddresses |-> <<"table1", "table2">>] :
        cb \in {<<>>, <<IxPayload("computeLimit"), IxPayload("computePrice")>>},
        setup \in {<<>>, <<IxPayload("createAta"), IxPayload("wrapSol")>>}}

\* the lookup tables that exist on chain
AccountSets == SUBSET {"table1", "table2"}

Invoked(tokenCA, amountInSOL, fault, instructions, accounts) ==
    [pc |-> "pending", tokenCA |-> tokenCA, amountInSOL |-> amountInSOL,
     fault |-> fault, instructions |-> instructions, accounts |-> accounts,
     run |-> Settled("pending", "none", <<>>), tx |-> NoTransaction]

\* the promise returned by executeTokenPurchase settles
Settle ==
    /\ invocation.pc = "pending"
    /\ invocation' =
          [invocation EXCEPT
              !.pc = "settled",
              !.run = ExecuteTokenPurchase(invocation.tokenCA,
                                           invocation.amountInSOL,
                                           invocation.fault),
              !.tx = IF RelaySubmits(ExecuteTokenPurchase(invocation.tokenCA,
                                                          invocation.amountInSOL,
                                                          invocation.fault)) = 1
                     THEN Transaction(invocation.instructions, invocation.accounts)
                     ELSE NoTransaction]
    /\ UNCHANGED <<monitorVars, request, lookup, previous>>

InitPurchase ==
    /\ build = "service"
    /\ monitoringConfig = ConfigShared
    /\ Constructed
    /\ LOOP_TIME_MS = 0
    /\ request = NoRequest
    /\ invocation \in {Invoked(tokenCA, amountInSOL, fault, instructions, accounts) :
                          tokenCA \in TokenCAs, amountInSOL \in Amounts,
                          fault \in Faults, instructions \in SwapAnswers,
                          accounts \in AccountSets}
    /\ lookup = NoLookup
    /\ previous = NoPrevious

NextPurchase == Settle

SpecPurchase == InitPurchase /\ [][NextPurchase]_vars

-----------------------------------------------------------------------------
(* The match decision: one pair that only reports, keywords and post texts that
   differ in case, in whitespace and in where the keyword stands *)

MatchKeywords ==
    {<<>>, <<" ">>, <<"c", "o">>, <<"C", "O">>, <<"c", "o", " ">>}

MatchTexts ==
    {<<>>, <<" ">>, TextCoin, <<"x", "C", "O">>, <<"c", " ", "o">>,
     <<"C", "o", " ", "x">>}

ConfigsMatch ==
    {<< [username |-> "alice", keyword |-> keyword, tokenCA |-> NullCA,
         buyAmount |-> DEFAULT_BUY_AMOUNT] >> : keyword \in MatchKeywords}

InitMatch ==
    /\ build \in Builds
    /\ monitoringConfig \in ConfigsMatch
    /\ Constructed
    /\ LOOP_TIME_MS = 0
    /\ request = NoRequest
    /\ invocation = NoInvocation
    /\ lookup = NoLookup
    /\ previous = NoPrevious

NextMatch ==
    \/ Start
    \/ \E i \in 1..NumConfigs : GetUserIdFailed(i)
    \/ \E i \in 1..NumConfigs : GetUserIdOk(i)
    \/ \E f \in BagToSet(fetches), reply \in Replies : BaselineResponse(f, reply)
    \/ TickService
    \/ TickPart002
    \/ \E n \in BagToSet(pendingChecks) : DelayedCheck(n)
    \/ \E f \in BagToSet(fetches), reply \in Replies : CheckResponse(f, reply)
    \/ \E h \in Handles, text \in MatchTexts : NewPost(h, text)

SpecMatch == InitMatch /\ [][NextMatch]_vars

-----------------------------------------------------------------------------
(* Two pairs that both buy: purchases in flight together *)

InitBuyers ==
    /\ build \in Builds
    /\ monitoringConfig = ConfigBuyers
    /\ Constructed
    /\ LOOP_TIME_MS = 0
    /\ request = NoRequest
    /\ invocation = NoInvocation
    /\ lookup = NoLookup
    /\ previous = NoPrevious

SpecBuyers == InitBuyers /\ [][Next]_vars

-----------------------------------------------------------------------------
(* stop() with two pairs in the cycling list: the deadline and the stop signal
   find the index at either entry *)

InitHalt ==
    /\ build \in Builds
    /\ monitoringConfig = ConfigReport
    /\ Constructed
    /\ LOOP_TIME_MS \in LoopTimes
    /\ request = NoRequest
    /\ invocation = NoInvocation
    /\ lookup = NoLookup
    /\ previous = NoPrevious

NextHalt ==
    \/ Start
    \/ \E i \in 1..NumConfigs : GetUserIdFailed(i)
    \/ \E i \in 1..NumConfigs : GetUserIdOk(i)
    \/ \E f \in BagToSet(fetches), reply \in Replies : BaselineResponse(f, reply)
    \/ TickService
    \/ TickPart002
    \/ \E n \in BagToSet(pendingChecks) : DelayedCheck(n)
    \/ \E f \in BagToSet(fetches), reply \in Replies : CheckResponse(f, reply)
    \/ \E h \in Handles, text \in Texts : NewPost(h, text)
    \/ DeadlineFires
    \/ Sigint

SpecHalt == InitHalt /\ [][NextHalt]_vars

-----------------------------------------------------------------------------
(* start() while already monitoring: the restart path *)

\* calls of start() made while the service is monitoring
MaxRestarts == 1

ConfigsRestart == {ConfigSingle}

\* a baseline fetch issued before the restart; its callback belongs to the
\* initializeAllUsers call of the stopped session
Outlived(f) == IF f.kind = "baseline" THEN [f EXCEPT !.kind = "baselineOld"] ELSE f

OutlivedFetches(bag) ==
    [g \in {Outlived(f) : f \in DOMAIN bag} |->
        bag[CHOOSE f \in DOMAIN bag : Outlived(f) = g]]

\* start() with isMonitoring set: stop(), then start() goes on as usual.  stop()
\* cancels the two timers only; the getUserId and getUserTweets callbacks, the
\* delayed checks and the awaited purchases of the stopped session stay pending,
\* and the initializedCount of its initializeAllUsers call stays in its closure.
Restart ==
    /\ proc = "running"
    /\ isMonitoring
    /\ previous.restarts < MaxRestarts
    /\ SetSched([Stop(Sched) EXCEPT
           !.isMonitoring = TRUE,
           !.activePairs = {PairKey(monitoringConfig[i]) : i \in 1..NumConfigs},
           !.timeoutTimer = DeadlineConfigured(LOOP_TIME_MS)])
    /\ initPc' = [i \in 1..NumConfigs |-> "resolving"]
    /\ initializedCount' = 0
    /\ previous' = [restarts |-> previous.restarts + 1, initPc |-> initPc,
                    count |-> initializedCount]
    /\ fetches' = OutlivedFetches(fetches)
    /\ hist' = Remember(Event("restart", Cardinality(activePairs), <<>>, <<>>, Phase))
    /\ UNCHANGED <<LOOP_TIME_MS, request, invocation, lookup>>
    /\ UNCHANGED <<build, monitoringConfig, solanaService, lastProcessedTweetIds,
                   timeline, pendingChecks, purchases, results, buyTransactions>>

\* the initializeAllUsers call of the stopped session counts one more user
CountPrevious(r) ==
    IF previous.count + 1 = NumConfigs THEN StartCyclingMonitoring(r) ELSE r

PreviousAt(i, pc) == i \in DOMAIN previous.initPc /\ previous.initPc[i] = pc

\* getUserId callback of the stopped session, with an error
OldGetUserIdFailed(i) ==
    /\ proc = "running"
    /\ PreviousAt(i, "resolving")
    /\ SetSched(CountPrevious(
           [Sched EXCEPT !.activePairs = @ \ {PairKey(monitoringConfig[i])}]))
    /\ previous' = [previous EXCEPT !.count = @ + 1, !.initPc[i] = "failed"]
    /\ hist' = Remember(Event("oldUserIdFailed", i, <<>>, <<>>, "none"))
    /\ UNCHANGED <<LOOP_TIME_MS, request, invocation, lookup>>
    /\ UNCHANGED <<build, monitoringConfig, solanaService, lastProcessedTweetIds,
                   initPc, initializedCount, timeline, fetches, pendingChecks,
                   purchases, results, buyTransactions>>

\* getUserId callback of the stopped session, with a user id
OldGetUserIdOk(i) ==
    /\ proc = "running"
    /\ PreviousAt(i, "resolving")
    /\ userConfigsWithIds' = Append(userConfigsWithIds, i)
    /\ fetches' = fetches (+) SetToBag({Fetch("baselineOld", i)})
    /\ previous' = [previous EXCEPT !.initPc[i] = "baseline"]
    /\ hist' = Remember(Event("oldUserIdOk", i, <<>>, <<>>, "none"))
    /\ UNCHANGED <<LOOP_TIME_MS, request, invocation, lookup, timeoutTimer>>
    /\ UNCHANGED <<build, monitoringConfig, solanaService, proc, isMonitoring,
                   monitoringInterval, activePairs, currentUserIndex,
                   lastProcessedTweetIds, initPc, initializedCount, timeline,
                   pendingChecks, purchases, results, buyTransactions>>

\* the reply to a baseline fetch of the stopped session arrives
OldBaselineResponse(f, reply) ==
    /\ proc = "running"
    /\ BagIn(f, fetches)
    /\ f.kind = "baselineOld"
    /\ LET h == monitoringConfig[f.cfg].username
           ok == reply # "error"
           tweets == TweetsAt(h, f.snap, reply)
           recorded == ok /\ Len(tweets) > 0 /\ Truthy(TweetId(tweets[1]))
       IN /\ lastProcessedTweetIds' =
                 SetInitialBaselineForCycling(lastProcessedTweetIds, h, ok, tweets)
          /\ hist' = [hist EXCEPT
                 !.initial = IF recorded THEN @ \cup {<<h, TweetId(tweets[1])>>} ELSE @,
                 !.last = Event("oldBaseline", f.cfg,
                                IF recorded THEN TweetId(tweets[1]) ELSE <<>>,
                                LastTweetId(h),
                                IF recorded THEN "recorded"
                                ELSE IF build = "part002" THEN "cleared"
                                ELSE "none")]
    /\ fetches' = fetches (-) SetToBag({f})
    /\ SetSched(CountPrevious(Sched))
    /\ previous' = [previous EXCEPT !.count = @ + 1, !.initPc[f.cfg] = "done"]
    /\ UNCHANGED <<LOOP_TIME_MS, request, invocation, lookup>>
    /\ UNCHANGED <<build, monitoringConfig, solanaService, initPc, initializedCount,
                   timeline, pendingChecks, purchases, results, buyTransactions>>

InitRestart ==
    /\ build \in Builds
    /\ monitoringConfig \in ConfigsRestart
    /\ Constructed
    /\ LOOP_TIME_MS = 0
    /\ request = NoRequest
    /\ invocation = NoInvocation
    /\ lookup = NoLookup
    /\ previous = NoPrevious

NextRestart ==
    \/ Next
    \/ Restart
    \/ \E i \in 1..NumConfigs : OldGetUserIdFailed(i)
    \/ \E i \in 1..NumConfigs : OldGetUserIdOk(i)
    \/ \E f \in BagToSet(fetches), reply \in Replies : OldBaselineResponse(f, reply)

SpecRestart == InitRestart /\ [][NextRestart]_vars

-----------------------------------------------------------------------------
(* The service with and without its trading credentials *)

\* process.env.QUICKNODE_RPC_URL and process.env.WALLET_PRIVATE_KEY: unset or set
RpcUrls == {Undefined, <<"r", "p", "c">>}
PrivateKeys == {Undefined, <<"k", "e", "y">>}

\* if (QUICKNODE_RPC && WALLET_PRIVATE_KEY) this.solanaService = new SolanaService(..)
TradingEnabled(rpc, key) == Truthy(rpc) /\ Truthy(key)

InitTrading ==
    /\ build \in Builds
    /\ monitoringConfig = ConfigShared
    /\ \E rpc \in RpcUrls, key \in PrivateKeys :
           solanaService = TradingEnabled(rpc, key)
    /\ ConstructedFields
    /\ LOOP_TIME_MS = 0
    /\ request = NoRequest
    /\ invocation = NoInvocation
    /\ lookup = NoLookup
    /\ previous = NoPrevious

SpecTrading == InitTrading /\ [][Next]_vars

-----------------------------------------------------------------------------
(* TwitterAPI.getUserId and the user cache file *)

\* getUserId calls made in one run
MaxLookups == 3

CacheHandles == {"alice", "bob"}

\* json.result.data.user.result.rest_id of the account
RestIdOf(username) == IF username = "alice" THEN "111" ELSE "222"

\* the userId fields a cache file can hold: an empty string, the account's id,
\* an id stored by an earlier run
CachedIds == {"", "111", "222", "999"}

\* the contents of user_cache.json: a map from handle to entry (the file absent
\* or unreadable reads as the empty map)
CacheFiles ==
    UNION {[hs -> CachedIds] : hs \in SUBSET CacheHandles}

\* cachedUser && cachedUser.userId
CacheHit(cache, username) ==
    username \in DOMAIN cache /\ cache[username] # ""

\* saveUserToCache with the fault of writing a file that holds the new entry only
SaveUserToCacheAlone(cache, username, userId) ==
    [h \in {username} |-> userId]

\* saveUserToCache: load the file, set cache[username], write the file
SaveUserToCache(cache, username, userId) ==
    [h \in (DOMAIN cache) \cup {username} |->
        IF h = username THEN userId ELSE cache[h]]

\* how the request to /user?username=.. ends
UserOutcomes == {"id", "noId", "parseError", "requestError"}

\* what a call handed to its callback
LookupEvent(op, username, error, userId) ==
    [op |-> op, username |-> username, error |-> error, userId |-> userId]

Looking(cache) ==
    [pc |-> "open", cache |-> cache, inFlight |-> EmptyBag, calls |-> 0,
     requests |-> 0, last |-> LookupEvent("none", "", "", "")]

\* TwitterAPI.getUserId(username, callback) up to the return or the req.end()
GetUserId(username) ==
    /\ lookup.pc = "open"
    /\ lookup.calls < MaxLookups
    /\ lookup' =
          IF CacheHit(lookup.cache, username)
          THEN [lookup EXCEPT !.calls = @ + 1,
                              !.last = LookupEvent("cached", username, "null",
                                                   lookup.cache[username])]
          ELSE [lookup EXCEPT !.calls = @ + 1,
                              !.requests = @ + 1,
                              !.inFlight = @ (+) SetToBag({username}),
                              !.last = LookupEvent("request", username, "", "")]
    /\ UNCHANGED <<monitorVars, request, invocation, previous>>

\* the response to the request of a getUserId call ends, or the request fails
UserResponse(username, outcome) ==
    /\ lookup.pc = "open"
    /\ BagIn(username, lookup.inFlight)
    /\ lookup' =
          IF outcome = "id"
          THEN [lookup EXCEPT
                   !.inFlight = @ (-) SetToBag({username}),
                   !.cache = SaveUserToCache(@, username, RestIdOf(username)),
                   !.last = LookupEvent("fetched", username, "null",
                                        RestIdOf(username))]
          ELSE [lookup EXCEPT
                   !.inFlight = @ (-) SetToBag({username}),
                   !.last = LookupEvent("failed", username, outcome, "null")]
    /\ UNCHANGED <<monitorVars, request, invocation, previous>>

InitLookup ==
    /\ build = "service"
    /\ monitoringConfig = ConfigShared
    /\ Constructed
    /\ LOOP_TIME_MS = 0
    /\ request = NoRequest
    /\ invocation = NoInvocation
    /\ lookup \in {Looking(cache) : cache \in CacheFiles}
    /\ previous = NoPrevious

NextLookup ==
    \/ \E username \in CacheHandles : GetUserId(username)
    \/ \E username \in CacheHandles, outcome \in UserOutcomes :
           UserResponse(username, outcome)

SpecLookup == InitLookup /\ [][NextLookup]_vars

-----------------------------------------------------------------------------
(* TwitterAPI.getUserTweets: reading the tweets out of a response body *)

\* for (let i = 0; i < 5; i++)
InstructionIndices == 0..4

\* an entry of a timeline instruction: one that carries a tweet (its legacy
\* object, named here by the instruction it stands in) or a cursor entry
TweetEntry(i) == [legacy |-> <<"t", i>>]
CursorEntry == [legacy |-> Undefined]

\* the entries of instruction i: none, a cursor, a tweet, a cursor and a tweet
EntryLists(i) ==
    {<<>>, <<CursorEntry>>, <<TweetEntry(i)>>, <<CursorEntry, TweetEntry(i)>>}

\* a member of json.result.tweets: an object that holds the tweet as its legacy
\* field, or the tweet itself
WrappedTweet == [legacy |-> <<"r", 1>>, self |-> <<"w", 1>>]
BareTweet == [legacy |-> Undefined, self |-> <<"r", 2>>]

\* json.result.tweets: absent, empty, a wrapped tweet, a bare tweet
DirectLists ==
    {[defined |-> FALSE, items |-> <<>>], [defined |-> TRUE, items |-> <<>>],
     [defined |-> TRUE, items |-> <<WrappedTweet>>],
     [defined |-> TRUE, items |-> <<BareTweet>>]}

\* the response bodies: the entries of the instructions 0..4 and result.tweets
Bodies ==
    {[instructions |-> ins, tweets |-> direct] :
        ins \in {f \in [InstructionIndices -> UNION {EntryLists(i) : i \in InstructionIndices}] :
                    \A i \in InstructionIndices : f[i] \in EntryLists(i)},
        direct \in DirectLists}

\* entries.map(entry => entry.content?.itemContent?.tweet_results?.result?.legacy)
\*        .filter(Boolean)
Legacies(entries) ==
    LET kept == SelectSeq(entries, LAMBDA entry : entry.legacy # Undefined)
    IN [k \in 1..Len(kept) |-> kept[k].legacy]

\* json.result.tweets.map(tweet => tweet.legacy || tweet).filter(Boolean)
DirectTweets(list) ==
    [k \in 1..Len(list) |->
        IF list[k].legacy # Undefined THEN list[k].legacy ELSE list[k].self]

\* what the three methods have read so far: the tweets and the places consulted
Reading(tweets, consulted) == [tweets |-> tweets, consulted |-> consulted]

\* Method 1: json.result?.timeline?.instructions?.[2]?.entries
Method1(body) ==
    Reading(IF Len(body.instructions[2]) > 0
            THEN Legacies(body.instructions[2]) ELSE <<>>,
            <<<<"instruction", 2>>>>)

\* the loop of Method 2 from index i on
RECURSIVE ScanInstructions(_, _, _)
ScanInstructions(body, i, r) ==
    IF i >= 5 THEN r
    ELSE LET entries2 == body.instructions[i]
             seen == Append(r.consulted, <<"instruction", i>>)
         IN IF Len(entries2) > 0
            THEN IF Len(Legacies(entries2)) > 0
                 THEN Reading(Legacies(entries2), seen)
                 ELSE ScanInstructions(body, i + 1, Reading(Legacies(entries2), seen))
            ELSE ScanInstructions(body, i + 1, Reading(r.tweets, seen))

\* Method 2: if (tweets.length === 0) for (let i = 0; i < 5; i++) ..
Method2(body, r) ==
    IF Len(r.tweets) = 0 THEN ScanInstructions(body, 0, r) ELSE r

\* Method 3: if (tweets.length === 0 && json.result?.tweets) ..
Method3(body, r) ==
    IF Len(r.tweets) = 0 /\ body.tweets.defined
    THEN Reading(DirectTweets(body.tweets.items), Append(r.consulted, <<"direct", 0>>))
    ELSE r

\* ExtractTweets with the fault of reading result.tweets before the timeline
ExtractTweetsDirectFirst(body) ==
    LET r3 == Method3(body, Reading(<<>>, <<>>))
    IN IF Len(r3.tweets) > 0 THEN r3
       ELSE Method2(body, [Method1(body) EXCEPT !.consulted = r3.consulted \o @])

\* the three methods in the order of the code
ExtractTweets(body) == Method3(body, Method2(body, Method1(body)))

\* a response with status 200 whose body is JSON without a message has arrived
Received(body) ==
    [pc |-> "received", body |-> body, callbacks |-> <<>>, consulted |-> <<>>]

\* res.on("end"): the tweets are read out and handed to the callback
ReadTweets ==
    /\ request.pc = "received"
    /\ request' =
          [request EXCEPT
              !.pc = "done",
              !.consulted = ExtractTweets(request.body).consulted,
              !.callbacks = <<[error |-> "null",
                               tweets |-> ExtractTweets(request.body).tweets]>>]
    /\ UNCHANGED <<monitorVars, invocation, lookup, previous>>

InitExtract ==
    /\ build = "service"
    /\ monitoringConfig = ConfigShared
    /\ Constructed
    /\ LOOP_TIME_MS = 0
    /\ request \in {Received(body) : body \in Bodies}
    /\ invocation = NoInvocation
    /\ lookup = NoLookup
    /\ previous = NoPrevious

NextExtract == ReadTweets

SpecExtract == InitExtract /\ [][NextExtract]_vars

-----------------------------------------------------------------------------
(* Vocabulary of the properties *)

ConfigNums == 1..NumConfigs

\* the MatchEvents of the result log: the records saved when a match is detected
\* (the records saved after the purchase carry purchaseExecuted)
MatchEventsOf(n) ==
    {k \in 1..Len(results) :
        /\ results[k].purchaseExecuted = "unset"
        /\ results[k].username = monitoringConfig[n].username
        /\ results[k].keyword = monitoringConfig[n].keyword}

\* the number of the post of account h whose id string is `id`, read off the
\* TweetSource's timeline (0 when there is none)
PostNumOf(h, id) ==
    IF \E k \in 1..Len(timeline[h]) : ToDecimal(timeline[h][k].num) = id
    THEN (CHOOSE k \in 1..Len(timeline[h]) :
              ToDecimal(timeline[h][k].num) = id) + FirstPostNum - 1
    ELSE 0

\* the text of the post of account h whose id string is `id`
PostTextOf(h, id) ==
    timeline[h][CHOOSE k \in 1..Len(timeline[h]) :
                    ToDecimal(timeline[h][k].num) = id].text

Last == hist.last

LastHandle == monitoringConfig[Last.cfg].username

\* the last handler was a checkForNewTweets callback whose reply carried a post
CheckedPost == Last.op = "check" /\ Last.id # <<>>

\* the last handler treated the post of its reply as new
TreatedAsNew == Last.verdict \in {"match", "nomatch", "emptyText"}

-----------------------------------------------------------------------------
(* C1..C10: the claims about matching and the baseline *)

\* C1: for every watched pair at most one MatchEvent is ever produced and
\* executeTokenPurchase is invoked at most once.
C1_AtMostOneMatchEvent ==
    \A n \in ConfigNums :
        /\ Cardinality(MatchEventsOf(n)) <= 1
        /\ CopiesIn(n, hist.purchaseCalls) <= 1

\* C2: in no reachable state is a purchase in flight for a pair that is still in
\* the active set (activePairs, userConfigsWithIds).
C2_RemovedBeforePurchase ==
    \A p \in BagToSet(purchases) :
        /\ PairKey(monitoringConfig[p.cfg]) \notin activePairs
        /\ \A k \in 1..Len(userConfigsWithIds) : userConfigsWithIds[k] # p.cfg

\* C3: once a match has been detected for a pair, no tick issues a fetch for the
\* pair and no reply for the pair is evaluated against its keyword.
C3_NeverVisitedAfterMatch ==
    /\ (Last.op \in {"tick", "delayedCheck"} /\ Last.verdict \in {"fetch", "delay"})
          => Last.cfg \notin hist.matched
    /\ (Last.op = "check" /\ Evaluates(Last.verdict) /\ Last.cfg \in hist.matched)
          => (Last.verdict = "match" /\ Cardinality(MatchEventsOf(Last.cfg)) = 1)

\* C4: no MatchEvent carries the id of a post that setInitialBaselineForCycling
\* recorded as the initial baseline of the pair's handle.
C4_BaselinePostNeverMatches ==
    \A k \in 1..Len(results) :
        <<results[k].username, results[k].tweetId>> \notin hist.initial

\* C5: once a handle's baseline holds a post id, every write that changes it
\* stores a numerically strictly greater id; the baseline never decreases and is
\* never cleared.  (Last.base is the baseline the writer found, Last.id the id it
\* stored, empty when it cleared the baseline.)
C5_BaselineStrictlyIncreases ==
    (/\ \/ Last.op = "baseline" /\ Last.verdict \in {"recorded", "cleared"}
        \/ Last.op = "check" /\ AdvancesBaseline(Last.verdict)
     /\ Truthy(Last.base)
     /\ Last.id # Last.base)
        => PostNumOf(LastHandle, Last.id) > PostNumOf(LastHandle, Last.base)

\* C6: two pairs share a handle; when a visit of one pair consumes a new post
\* that holds only the other pair's keyword, the other pair (still in the
\* cycling list) has its MatchEvent for that post.
C6_SharedHandleMatch ==
    (CheckedPost /\ Last.verdict = "nomatch" /\ Truthy(Last.base))
        => \A k \in 1..Len(userConfigsWithIds) :
              LET m == userConfigsWithIds[k]
              IN (/\ m # Last.cfg
                  /\ monitoringConfig[m].username = LastHandle
                  /\ HasKeyword(monitoringConfig[m].keyword,
                                PostTextOf(LastHandle, Last.id)))
                 => \E e \in MatchEventsOf(m) : results[e].tweetId = Last.id

C8_NotNewerChangesNothing ==
    [][ (/\ hist'.last.op = "check"
         /\ hist'.last.id # <<>>
         /\ Truthy(hist'.last.base)
         /\ PostNumOf(monitoringConfig[hist'.last.cfg].username, hist'.last.id)
              <= PostNumOf(monitoringConfig[hist'.last.cfg].username, hist'.last.base))
        => /\ UNCHANGED <<lastProcessedTweetIds, activePairs, userConfigsWithIds,
                          currentUserIndex, results, buyTransactions, purchases,
                          isMonitoring, monitoringInterval, proc>>
           /\ hist'.evals = hist.evals
           /\ hist'.purchaseCalls = hist.purchaseCalls ]_vars

\* C8 witness: a reply with the baseline's own id was delivered and skipped.
C8_Witness ==
    /\ CheckedPost
    /\ Truthy(Last.base)
    /\ Last.id = Last.base
    /\ Last.verdict = "skip"

\* C9: a post treated as new becomes the baseline in the same step, before its
\* keyword is evaluated and before the purchase is awaited; so for every handle
\* the keyword is evaluated against a given post id at most once.
C9_EvaluatedAtMostOnce ==
    /\ \A x \in BagToSet(hist.evals) : CopiesIn(x, hist.evals) <= 1
    /\ (CheckedPost /\ TreatedAsNew) => LastTweetId(LastHandle) = Last.id
    /\ \A p \in BagToSet(purchases) :
          PostNumOf(p.result.username, LastTweetId(p.result.username))
              >= PostNumOf(p.result.username, p.result.tweetId)

\* C9 witness: a second reply with an already evaluated post is skipped while the
\* purchase for that post is still awaited.
C9_Witness ==
    /\ CheckedPost
    /\ Last.verdict = "skip"
    /\ BagIn(<<LastHandle, Last.id>>, hist.evals)
    /\ \E p \in BagToSet(purchases) : p.result.tweetId = Last.id

\* C10: when the handle has no baseline (missing or empty), the first post fetched
\* during cycling becomes the baseline and produces no MatchEvent.
C10_FirstPostBecomesBaseline ==
    (CheckedPost /\ ~Truthy(Last.base))
        => /\ LastTweetId(LastHandle) = Last.id
           /\ Last.verdict # "match"

-----------------------------------------------------------------------------
(* C11..C20: fetch concurrency, retries, failures, termination, the purchase *)

\* the getUserTweets calls issued by ticks that have not completed
ChecksInFlight ==
    LET S == {f \in BagToSet(fetches) : f.kind = "check"}
    IN BagCardinality([f \in S |-> CopiesIn(f, fetches)])

\* C11: at most one fetch issued by a tick is in flight at any time.
C11_OneFetchInFlight == ChecksInFlight <= 1

TickThrows ==
    /\ build = "service"
    /\ proc = "running"
    /\ monitoringInterval
    /\ currentUserIndex >= Len(userConfigsWithIds)

\* C13: a cycling fetch that ends in an error or without a post changes nothing
\* (active set, cycling list, baseline, logs; no evaluation, no MatchEvent), and
\* the pair, still in the cycling list, is fetched again by a later tick: the
\* next tick does not end the process.
C13_FailedFetchKeepsPair ==
    [][ (/\ hist'.last.op = "check"
         /\ hist'.last.verdict = "return"
         /\ hist'.last.id = <<>>)
        => /\ UNCHANGED <<lastProcessedTweetIds, activePairs, userConfigsWithIds,
                          results, buyTransactions, purchases>>
           /\ hist'.evals = hist.evals
           /\ hist'.matched = hist.matched
           /\ (\E k \in 1..Len(userConfigsWithIds') :
                   userConfigsWithIds'[k] = hist'.last.cfg)
                 => ~TickThrows' ]_vars

\* C14: a pair whose getUserId failed is out of the active set, never enters the
\* cycling list, has no fetch issued for it and its lookup is not started again;
\* the failure counts as an initialization, so that the cycling timer is set once
\* every pair is initialized or failed.
C14_FailedLookupRemovesPair ==
    /\ [](\A i \in ConfigNums :
             initPc[i] = "failed"
                => /\ PairKey(monitoringConfig[i]) \notin activePairs
                   /\ \A k \in 1..Len(userConfigsWithIds) : userConfigsWithIds[k] # i
                   /\ \A f \in BagToSet(fetches) : f.cfg # i
                   /\ ~BagIn(i, pendingChecks)
                   /\ Last.op \in {"userIdOk", "baseline", "tick", "delayedCheck",
                                   "check"} => Last.cfg # i)
    /\ []((/\ \A i \in ConfigNums : initPc[i] \in {"failed", "done"}
           /\ isMonitoring
           /\ proc = "running") => monitoringInterval)
    /\ [][\A i \in ConfigNums : initPc[i] = "failed" => initPc'[i] = "failed"]_vars

\* C14 witness: the lookup of the first pair failed and a tick fetches the second.
C14_Witness ==
    /\ initPc[1] = "failed"
    /\ Last.op \in {"tick", "delayedCheck"}
    /\ Last.verdict = "fetch"
    /\ Last.cfg = 2

\* C15: once started, whenever the active set is empty the scheduler has stopped
\* and the process has exited with status 0.
C15_EmptyActiveSetExits ==
    (Last.op # "none" /\ activePairs = {})
        => (proc = "exited" /\ ~isMonitoring /\ ~monitoringInterval)

C17_InFlightPurchaseRecorded ==
    Last.op \in {"deadline", "sigint"}
        => \A p \in BagToSet(purchases) :
              \E k \in 1..Len(results) :
                  /\ results[k].username = p.result.username
                  /\ results[k].keyword = p.result.keyword
                  /\ results[k].tweetId = p.result.tweetId
                  /\ results[k].purchaseExecuted \in {"true", "false"}

\* C18: for every input and every fault, executeTokenPurchase resolves, to false
\* or to a PurchaseResult carrying buyTxId; it never rejects.
C18_NeverRejects ==
    invocation.pc = "settled"
        => /\ invocation.run.settled = "resolved"
           /\ invocation.run.value \in {"false", "sig"}
           /\ invocation.run.value = "sig" => invocation.fault = NoFault

\* C18 witness: the RPC check rejected and the invocation resolved to false.
C18_Witness ==
    /\ invocation.pc = "settled"
    /\ invocation.fault = Fault("getSlot", "reject")
    /\ invocation.amountInSOL = DEFAULT_BUY_AMOUNT
    /\ invocation.run.settled = "resolved"
    /\ invocation.run.value = "false"

\* the requests of one invocation in the order the stages are to run: RPC check,
\* quote, instruction assembly, address-table resolution, transaction build,
\* relay submit
StageOrder ==
    <<"getSlot", "quote", "swapInstructions", "lookupTables", "latestBlockhash",
      "relaySubmit">>

\* the stage a step of the code belongs to
StageOf(step) ==
    CASE step \in {"quoteAmount", "quoteCheck"} -> "quote"
      [] step = "deserialize" -> "swapInstructions"
      [] step = "buildTransaction" -> "latestBlockhash"
      [] step = "resultCheck" -> "relaySubmit"
      [] OTHER -> step

StageIndex(stage) == CHOOSE k \in 1..Len(StageOrder) : StageOrder[k] = stage

\* C19: the requests of one invocation are a prefix of the stage order; when a
\* stage fails no request of a later stage is sent; when the quote request fails
\* or the quote has no outAmount, no swap-instructions request and no relay
\* submit is made.
C19_StagesInOrder ==
    invocation.pc = "settled"
        => LET calls == invocation.run.calls
               fault == invocation.fault
           IN /\ Len(calls) <= Len(StageOrder)
              /\ \A k \in 1..Len(calls) : calls[k] = StageOrder[k]
              /\ fault # NoFault
                    => \A k \in 1..Len(calls) :
                          StageIndex(calls[k]) <= StageIndex(StageOf(fault.stage))
              /\ fault.stage = "quote"
                    => \A k \in 1..Len(calls) :
                          calls[k] \notin {"swapInstructions", "relaySubmit"}

\* C19 witness: the quote request answered HTTP 500; the requests are the RPC
\* check and the quote.
C19_Witness ==
    /\ invocation.pc = "settled"
    /\ invocation.fault = Fault("quote", "httpError")
    /\ invocation.amountInSOL = DEFAULT_BUY_AMOUNT
    /\ invocation.run.calls = <<"getSlot", "quote">>
    /\ invocation.run.value = "false"

\* the records of the result log for the post `id` matched by pair n whose
\* purchaseExecuted is `executed`
RecordsOf(n, id, executed) ==
    {k \in 1..Len(results) :
        /\ results[k].username = monitoringConfig[n].username
        /\ results[k].keyword = monitoringConfig[n].keyword
        /\ results[k].tweetId = id
        /\ results[k].purchaseExecuted = executed}

\* C20: when the purchase for a match has failed, the result log holds the
\* MatchEvent and after it a record with purchaseExecuted = false and a
\* purchaseError; executeTokenPurchase was called once for the match and handed
\* at most one transaction to the relay; the pair is out of the active set and
\* of the cycling list.
C20_FailedPurchaseRecorded ==
    (Last.op = "purchaseDone" /\ Last.verdict = "failed")
        => /\ \E m \in RecordsOf(Last.cfg, Last.id, "unset") :
                 \E k \in RecordsOf(Last.cfg, Last.id, "false") :
                     /\ m < k
                     /\ results[k].purchaseError = "Purchase execution failed"
           /\ CopiesIn(<<Last.cfg, Last.id>>, hist.matchCalls) = 1
           /\ Last.submits <= 1
           /\ PairKey(monitoringConfig[Last.cfg]) \notin activePairs
           /\ \A k \in 1..Len(userConfigsWithIds) : userConfigsWithIds[k] # Last.cfg

\* C20 witness: a purchase failed after its transaction was handed to the relay.
C20_Witness ==
    /\ Last.op = "purchaseDone"
    /\ Last.verdict = "failed"
    /\ Last.submits = 1
    /\ RecordsOf(Last.cfg, Last.id, "false") # {}

-----------------------------------------------------------------------------
(* C21..C30: the relay reply, the transaction, amounts, matching, liveness *)

\* the relay answered the submission of the invocation
RelayAnswered ==
    /\ invocation.pc = "settled"
    /\ RelaySubmits(invocation.run) = 1
    /\ invocation.fault # Fault("relaySubmit", "reject")

\* C21: whatever the HTTP status, a relay reply with a non-empty result makes the
\* invocation resolve to a PurchaseResult whose buyTxId is that result, and a
\* reply with an error field and no result makes it resolve to false.
C21_RelayReplyDecides ==
    RelayAnswered
        => LET reply == RelayReplyOf(invocation.fault)
           IN /\ (~reply.null /\ reply.result # "")
                    => invocation.run.value = reply.result
              /\ (~reply.null /\ reply.result = "" /\ reply.error)
                    => invocation.run = Settled("resolved", "false", invocation.run.calls)

\* C22: the instructions of a submitted transaction are the compute-budget
\* instructions, the setup instructions, the swap instruction, the cleanup
\* instruction and the tip transfer, in this order and each group in the order of
\* the provider's answer; the tip transfer of MIN_TIP_AMOUNT lamports to the tip
\* address occurs once and is last.
C22_InstructionOrder ==
    invocation.tx.sent
        => LET ixs == invocation.tx.instructions
               cb == invocation.instructions.computeBudgetInstructions
               setup == invocation.instructions.setupInstructions
               n == Len(cb)
               m == Len(setup)
           IN /\ Len(ixs) = n + m + 3
              /\ \A k \in 1..n : ixs[k] = DeserializeInstruction(cb[k])
              /\ \A k \in 1..m : ixs[n + k] = DeserializeInstruction(setup[k])
              /\ ixs[n + m + 1].programId = "swap"
              /\ ixs[n + m + 2].programId = "cleanup"
              /\ ixs[n + m + 3] = TipIx
              /\ ixs[n + m + 3].lamports = MIN_TIP_AMOUNT
              /\ Cardinality({k \in 1..Len(ixs) : ixs[k] = TipIx}) = 1
              /\ \A k \in 1..Len(ixs) : ixs[k].form = "instruction"

\* C22 witness: a transaction with two compute-budget and two setup instructions
\* was submitted and bought the token.
C22_Witness ==
    /\ invocation.tx.sent
    /\ Len(invocation.tx.instructions) = 7
    /\ invocation.run.value = BuyTxId

\* C23: the lookup-table accounts of a submitted transaction are, in the order
\* of the requested addresses, exactly the requested tables that exist; a missing
\* table is no error: with no other fault the transaction is built and submitted
\* whichever tables are missing.
C23_MissingTablesSkipped ==
    invocation.pc = "settled"
        => LET keys == invocation.instructions.addressLookupTableAddresses
               tables == invocation.tx.lookupTables
           IN /\ invocation.tx.sent
                    => /\ \A k \in 1..Len(tables) :
                             /\ tables[k].key \in invocation.accounts
                             /\ tables[k].exists
                       /\ \A j \in 1..Len(keys) :
                             keys[j] \in invocation.accounts
                                => \E k \in 1..Len(tables) : tables[k].key = keys[j]
                       /\ \A k, l \in 1..Len(tables) :
                             k < l => \E i, j \in 1..Len(keys) :
                                         /\ i < j
                                         /\ keys[i] = tables[k].key
                                         /\ keys[j] = tables[l].key
              /\ (invocation.fault = NoFault
                  /\ ~InvalidAmount(invocation.amountInSOL)
                  /\ ~QuoteAmountRejected(AmountIn(invocation.amountInSOL)))
                    => /\ invocation.tx.sent
                       /\ invocation.run.value = BuyTxId

\* C23 witness: only the second table exists; the transaction was submitted
\* with that table alone.
C23_Witness ==
    /\ invocation.pc = "settled"
    /\ invocation.accounts = {"table2"}
    /\ invocation.tx.sent
    /\ Len(invocation.tx.lookupTables) = 1
    /\ invocation.tx.lookupTables[1].key = "table2"
    /\ invocation.run.value = BuyTxId

\* C24: an invocation with an amount that is NaN, zero or negative resolves to
\* false without any request (RPC, quote, swap instructions, relay).
C24_InvalidAmountNoCall ==
    (/\ invocation.pc = "settled"
     /\ (invocation.amountInSOL.nan \/ invocation.amountInSOL.tenths <= 0))
        => /\ invocation.run = Settled("resolved", "false", <<>>)
           /\ ~invocation.tx.sent

\* C24 witness: an invocation with a negative amount has settled.
C24_Witness ==
    /\ invocation.pc = "settled"
    /\ ~invocation.amountInSOL.nan
    /\ invocation.amountInSOL.tenths < 0
    /\ invocation.fault = NoFault
    /\ invocation.run.value = "false"

\* an invocation with a positive amount has settled
ValidAmountSettled ==
    invocation.pc = "settled" /\ ~InvalidAmount(invocation.amountInSOL)

\* the minor-unit amount handed to getQuote
SentAmount == ParseInt(AmountIn(invocation.amountInSOL))

\* floor of the exact product amountInSOL * 10^9, and whether the exact product
\* has a fraction
ExactProduct ==
    IntegerPart(MulBits(invocation.amountInSOL.mant, 1000000000),
                invocation.amountInSOL.exp)

\* the amount sent does not exceed the configured decimal amount; 0.00015 SOL
\* gives 150000; an amount of 0 minor units ends in failure without a quote
\* request
AmountWithinConfigured ==
    /\ SentAmount * 10 <= invocation.amountInSOL.tenths
    /\ invocation.amountInSOL = Amount15e5
          => AmountIn(invocation.amountInSOL) = <<"1", "5", "0", "0", "0", "0">>
    /\ SentAmount = 0
          => /\ invocation.run.settled = "resolved"
             /\ invocation.run.value = "false"
             /\ \A k \in 1..Len(invocation.run.calls) :
                   invocation.run.calls[k] # "quote"

Blank(s) == \A i \in 1..Len(s) : s[i] = " "

\* the two characters are the same letter up to case
SameLetter(a, b) ==
    a = b \/ {a, b} \in {{"c", "C"}, {"o", "O"}, {"m", "M"}, {"x", "X"}}

\* the keyword stands in the text as a contiguous run of characters, up to case
ContainsIgnoringCase(text, keyword) ==
    \E i \in 0..(Len(text) - Len(keyword)) :
        \A j \in 1..Len(keyword) : SameLetter(text[i + j], keyword[j])

LastKeyword == monitoringConfig[Last.cfg].keyword

LastText == PostTextOf(LastHandle, Last.id)

Polling == proc = "running" /\ monitoringInterval

\* C27: with no stop signal and no deadline, polling ends only in a step that
\* removes the last active pair: no fetch error, pipeline error, result-log error
\* or notification error ends it, and no handler ends the process with an
\* uncaught exception.
C27_OnlyLastRemovalEndsPolling ==
    [][ (Polling /\ ~Polling') => activePairs' = {} ]_vars

\* the cycling timer fires
Tick == TickService \/ TickPart002

\* the pair the cycling index points at (0 when it points past the list)
PairAtIndex ==
    IF currentUserIndex < Len(userConfigsWithIds)
    THEN userConfigsWithIds[currentUserIndex + 1] ELSE 0

\* C28: while pairs are active, a tick of the cycling timer visits at most one
\* pair, the active pair the cycling index points at, moves the index to the next entry of the list
\* cyclically, and leaves the process running, so that the pairs that remain
\* after a removal keep being visited in turn.
C28_TickVisitsNextPair ==
    [][ (Tick /\ activePairs # {}) =>
          /\ proc' = "running"
          /\ hist'.last.op = "tick"
          /\ hist'.last.cfg = PairAtIndex
          /\ PairAtIndex # 0 => PairKey(monitoringConfig[PairAtIndex]) \in activePairs
          /\ currentUserIndex' = (currentUserIndex + 1) % Len(userConfigsWithIds)
          /\ UNCHANGED <<activePairs, userConfigsWithIds>> ]_vars

\* the suspended callback p of a matched pair runs to its end in this step
Completes(p) == BagIn(p, purchases) /\ purchases' = purchases (-) SetToBag({p})

\* the purchase awaited by the callback p succeeded
PurchaseSucceeded(p) == p.stage = "notifying" \/ hist'.last.verdict = "bought"

\* C29: the handling of a match ends with the pair out of the active set: in the
\* step of the match when the purchase is skipped, and otherwise in the step in
\* which the suspended callback ends, whether the purchase failed or succeeded
\* and whether or not the notification was delivered; after a successful
\* purchase that step also appends the buy-transaction record.
C29_MatchedPairRemoved ==
    [][ /\ (hist'.last.op = "check" /\ hist'.last.verdict = "match"
             /\ hist' # hist /\ ~PurchaseWanted(monitoringConfig[hist'.last.cfg]))
            => PairKey(monitoringConfig[hist'.last.cfg]) \notin activePairs'
        /\ \A p \in BagToSet(purchases) :
              Completes(p) =>
                 /\ PairKey(monitoringConfig[p.cfg]) \notin activePairs'
                 /\ PurchaseSucceeded(p) =>
                       buyTransactions' =
                           Append(buyTransactions, BuyTransaction(
                               Purchased(p.result, monitoringConfig[p.cfg],
                                         BuyTxId))) ]_vars

\* C30: when the callback of one pair ends while the purchase of another pair is
\* awaited, it records its own outcome in the result log, leaves the other
\* purchase awaited, and leaves the process running with a cycling timer whose
\* next tick does not throw, so that the other outcome is recorded in turn.
C30_BothOutcomesRecorded ==
    [][ \A p, q \in BagToSet(purchases) :
          (Completes(p) /\ q.cfg # p.cfg) =>
              /\ Len(results') = Len(results) + 1
              /\ BagIn(q, purchases')
              /\ proc' = "running"
              /\ ~TickThrows' ]_vars

-----------------------------------------------------------------------------
(* C31..C39 *)

\* the scheduler fields as stop() leaves them
Stopped ==
    /\ ~monitoringInterval
    /\ ~timeoutTimer
    /\ activePairs = {}
    /\ userConfigsWithIds = <<>>
    /\ currentUserIndex = 0
    /\ ~isMonitoring

\* a handler whose last statements are stop() and process.exit(0) ran
StopRan == proc = "exited"

\* C31: after stop() both timers are cleared, the active set and the cycling
\* list are empty, the index is 0 and isMonitoring is false; stop() applied to
\* that state changes nothing; the deadline callback and the SIGINT handler,
\* which do nothing but stop() and exit, leave the baseline map as it was.
C31_StopClearsScheduler ==
    /\ [](StopRan => (Stopped /\ Stop(Sched) = Sched))
    /\ [][ (DeadlineFires \/ Sigint)
             => (Stopped' /\ lastProcessedTweetIds' = lastProcessedTweetIds) ]_vars

\* the deadline or the stop signal stopped a monitor in its cycling phase, with
\* both pairs active, a deadline configured and a baseline stored
C31_Witness ==
    /\ StopRan
    /\ Last.op \in {"deadline", "sigint"}
    /\ Last.cfg = 2
    /\ Last.verdict = "cycling"
    /\ LOOP_TIME_MS > 0
    /\ lastProcessedTweetIds # <<>>

\* the step is a getUserId call for `username`
Calls(username) ==
    /\ lookup'.calls = lookup.calls + 1
    /\ lookup'.last.username = username

\* the step is the successful end of the request of a call for `username`
Fetched(username) ==
    /\ lookup'.inFlight # lookup.inFlight
    /\ lookup'.last.op = "fetched"
    /\ lookup'.last.username = username

\* C32: a getUserId call for a handle whose cache entry has a non-empty userId
\* issues no request and hands the cached id to the callback; a call for a
\* handle without an entry issues one request; the successful end of a request
\* stores the id under the handle, so that a call made afterwards is a cache
\* hit for that id; no step removes or changes the entry of another handle.
C32_CacheServesLookups ==
    [][ \A username \in CacheHandles :
          /\ (Calls(username) /\ username \in DOMAIN lookup.cache
                 /\ lookup.cache[username] # "")
                => /\ lookup'.requests = lookup.requests
                   /\ lookup'.inFlight = lookup.inFlight
                   /\ lookup'.last.error = "null"
                   /\ lookup'.last.userId = lookup.cache[username]
          /\ (Calls(username) /\ username \notin DOMAIN lookup.cache)
                => /\ lookup'.requests = lookup.requests + 1
                   /\ lookup'.inFlight = lookup.inFlight (+) SetToBag({username})
          /\ Fetched(username)
                => /\ username \in DOMAIN lookup'.cache
                   /\ lookup'.cache[username] = lookup'.last.userId
                   /\ lookup'.last.userId = RestIdOf(username)
                   /\ CacheHit(lookup'.cache, username)
          /\ (username \in DOMAIN lookup.cache
                 /\ lookup'.last.username # username)
                => /\ username \in DOMAIN lookup'.cache
                   /\ lookup'.cache[username] = lookup.cache[username] ]_vars

\* a call for alice was served from the entry that an earlier call fetched and
\* stored, with bob's entry of an earlier run still in the file
C32_Witness ==
    /\ lookup.pc = "open"
    /\ lookup.last.op = "cached"
    /\ lookup.last.username = "alice"
    /\ lookup.last.userId = "111"
    /\ lookup.requests = 1
    /\ lookup.calls = 2
    /\ "bob" \in DOMAIN lookup.cache
    /\ lookup.cache["bob"] = "999"

\* the tweets instruction i of the body carries
YieldOf(body, i) ==
    LET entries == body.instructions[i]
    IN [k \in 1..Len(SelectSeq(entries, LAMBDA e : e.legacy # Undefined)) |->
           <<"t", i>>]

\* the tweets result.tweets carries
DirectYield(body) ==
    IF ~body.tweets.defined \/ body.tweets.items = <<>> THEN <<>>
    ELSE IF body.tweets.items[1] = WrappedTweet
         THEN <<<<"r", 1>>>> ELSE <<<<"r", 2>>>>

\* the instructions that carry a tweet
Yielding(body) == {i \in InstructionIndices : YieldOf(body, i) # <<>>}

\* the least number of a non-empty set of numbers
Least(S) == CHOOSE i \in S : \A j \in S : i <= j

\* C33: the callback of a response that parsed gets no error and the tweets of
\* the first strategy that yields a non-empty list, in the order instruction 2,
\* instructions 0 to 4 ascending, result.tweets; once a strategy has yielded no
\* later one is consulted; when none yields the list is empty.
C33_FirstYieldingStrategy ==
    request.pc = "done" /\ "body" \in DOMAIN request
        => LET body == request.body
               got == request.callbacks[1]
               consulted == request.consulted
           IN /\ Len(request.callbacks) = 1
              /\ got.error = "null"
              /\ consulted[1] = <<"instruction", 2>>
              /\ IF YieldOf(body, 2) # <<>>
                 THEN got.tweets = YieldOf(body, 2) /\ Len(consulted) = 1
                 ELSE IF Yielding(body) # {}
                 THEN /\ got.tweets = YieldOf(body, Least(Yielding(body)))
                      /\ consulted =
                            <<<<"instruction", 2>>>> \o
                            [k \in 1..(Least(Yielding(body)) + 1) |->
                                <<"instruction", k - 1>>]
                 ELSE /\ got.tweets = DirectYield(body)
                      /\ \A i \in InstructionIndices :
                            \E k \in 1..Len(consulted) :
                                consulted[k] = <<"instruction", i>>

\* instruction 2 carries only a cursor, instructions 3 and 4 carry a tweet and
\* so does result.tweets: the callback got the tweet of instruction 3
C33_Witness ==
    /\ request.pc = "done"
    /\ "body" \in DOMAIN request
    /\ YieldOf(request.body, 2) = <<>>
    /\ Len(request.body.instructions[2]) > 0
    /\ Yielding(request.body) = {3, 4}
    /\ DirectYield(request.body) # <<>>
    /\ request.callbacks[1].tweets = <<<<"t", 3>>>>

\* C34: a getUserTweets call whose HTTP attempts all end hands its callback a
\* result exactly once: never twice, and the call does come to its end, with one
\* callback made, on every path (a retry does not call back; the attempt that
\* ends the call does).
C34_CallbackExactlyOnce ==
    /\ [](Len(request.callbacks) <= 1)
    /\ [](request.pc = "done" => Len(request.callbacks) = 1)
    /\ [][request'.pc = "retryWait" => request'.callbacks = <<>>]_vars
    /\ <>(request.pc = "done")

\* a network error and a 429 were retried and the third attempt brought tweets
C34_Witness ==
    /\ request.pc = "done"
    /\ "attempts" \in DOMAIN request
    /\ request.attempts = <<"networkError", "status429", "tweets">>
    /\ request.callbacks = <<"tweets">>

\* every configured pair has finished its initialization
AllInitialized == \A i \in ConfigNums : initPc[i] \in {"failed", "done"}

\* C35: the cycling timer is set in the step that finishes the initialization of
\* the last pair, whatever the order of the responses, and in no other step: not
\* before, and not a second time; until then no tick has fired and no cycling
\* fetch or delayed check exists.
C35_CyclingStartsOnceAfterInit ==
    /\ [][ (~monitoringInterval /\ monitoringInterval')
              => /\ ~AllInitialized
                 /\ AllInitialized'
                 /\ initializedCount' = NumConfigs ]_vars
    /\ [][ (~AllInitialized /\ AllInitialized' /\ proc' = "running")
              => monitoringInterval' ]_vars
    /\ [][ AllInitialized => initializedCount' = initializedCount ]_vars
    /\ [](~AllInitialized
             => /\ ~monitoringInterval
                /\ Last.op \notin {"tick", "delayedCheck", "check"}
                /\ pendingChecks = EmptyBag
                /\ \A f \in BagToSet(fetches) : f.kind = "baseline")

\* the baseline reply of the first pair arrived after that of the second and
\* set the cycling timer
C35_Witness ==
    /\ monitoringInterval
    /\ Last.op = "baseline"
    /\ Last.cfg = 1
    /\ initPc[2] = "done"
    /\ initializedCount = NumConfigs

\* a callback of the session that stop() has ended takes a step
OldSessionStep ==
    /\ previous.restarts > 0
    /\ previous' # previous
    /\ previous'.restarts = previous.restarts

\* startCyclingMonitoring is called: an initializeAllUsers call has counted its
\* last user
CyclingStarts ==
    \/ initializedCount' # initializedCount /\ initializedCount' = NumConfigs
    \/ OldSessionStep /\ previous'.count # previous.count
          /\ previous'.count = NumConfigs

\* a getUserTweets call of the given kinds is issued in this step
Issues(kinds) ==
    \E f \in DOMAIN fetches' :
        /\ f.kind \in kinds
        /\ CopiesIn(f, fetches') > CopiesIn(f, fetches)

\* C36: at most one cycling timer exists at any time (startCyclingMonitoring is
\* never called while a timer is set), and once stop() has returned in a process
\* that goes on (start() called while monitoring), the callbacks of the stopped
\* session add no pair to userConfigsWithIds, issue no fetch and set no timer,
\* and no check fetch is issued while the timer is cleared (a delayed check that
\* was pending when stop() ran).
C36_StoppedSessionIsSilent ==
    /\ [][CyclingStarts => ~monitoringInterval]_vars
    /\ [][OldSessionStep =>
             /\ userConfigsWithIds' = userConfigsWithIds
             /\ monitoringInterval' = monitoringInterval
             /\ ~Issues({"baseline", "baselineOld", "check"})]_vars
    /\ [][(previous.restarts > 0 /\ ~monitoringInterval)
             => ~Issues({"check"})]_vars

\* the tick leaves the scheduler and the calls in flight as they were
TickDoesNothing ==
    UNCHANGED <<proc, currentUserIndex, userConfigsWithIds, fetches, pendingChecks>>

\* C37: a cycling tick finds the list empty and does nothing, or finds
\* currentUserIndex inside the list, so that the entry it reads is defined and
\* no tick ends in a TypeError; this after any removals between ticks and when
\* every identifier lookup has failed.
C37_TickReadsInsideList ==
    [][Tick => /\ IF userConfigsWithIds = <<>>
                  THEN TickDoesNothing
                  ELSE currentUserIndex < Len(userConfigsWithIds)
               /\ hist'.last.verdict # "TypeError"]_vars

\* the awaited purchase of a matched pair settles in this step
PurchaseSettles(verdict) ==
    hist'.last.op = "purchaseDone" /\ hist'.last.verdict = verdict

\* a new post matches a pair whose purchase is skipped
MatchSkipsPurchase ==
    /\ hist' # hist
    /\ hist'.last.op = "check"
    /\ hist'.last.verdict = "match"
    /\ ~PurchaseWanted(monitoringConfig[hist'.last.cfg])

\* what the claim says a record or a message for pair n carries
CarriesPurchaseOf(r, n) ==
    /\ r.txId = BuyTxId
    /\ r.tokenCA = monitoringConfig[n].tokenCA
    /\ r.buyAmount = <<monitoringConfig[n].buyAmount>>

\* seq' is seq with one element appended, which carries the purchase of pair n
AppendsOneFor(seq, seq2, n) ==
    /\ Len(seq2) = Len(seq) + 1
    /\ SubSeq(seq2, 1, Len(seq)) = seq
    /\ CarriesPurchaseOf(seq2[Len(seq2)], n)

\* C38: a purchase that settles with a transaction id sends one notification,
\* and the callback it belongs to appends one buy-transaction record when it
\* ends, both carrying the transaction id, the token of the pair and its
\* configured amount; a record is appended and a notification sent in no other
\* step, and only after one transaction was handed to the relay; a failed or a
\* skipped purchase produces neither.
C38_RecordAndNotificationPerPurchase ==
    /\ [][PurchaseSettles("bought") =>
             AppendsOneFor(hist.notifications, hist'.notifications,
                           hist'.last.cfg)]_vars
    /\ [][\A p \in BagToSet(purchases) :
             (Completes(p) /\ PurchaseSucceeded(p)) =>
                 AppendsOneFor(buyTransactions, buyTransactions', p.cfg)]_vars
    /\ [][buyTransactions' # buyTransactions =>
             \E p \in BagToSet(purchases) : Completes(p) /\ PurchaseSucceeded(p)]_vars
    /\ [][hist'.notifications # hist.notifications =>
             PurchaseSettles("bought") /\ hist'.last.submits = 1]_vars
    /\ [][(PurchaseSettles("failed") \/ MatchSkipsPurchase) =>
             /\ buyTransactions' = buyTransactions
             /\ hist'.notifications = hist.notifications]_vars

\* the pair has no token address, or the service was built without SolanaService
NoTokenOrNoTrading(config) == config.tokenCA = NullCA \/ ~solanaService

\* C39: when a new post matches a pair without tokenCA, or any pair while
\* trading is disabled, that step appends the MatchEvent of the post to the
\* result log, does not invoke executeTokenPurchase (no purchase is awaited
\* and none is counted) and leaves the pair out of the active set; a service
\* without SolanaService never awaits a purchase and never writes a
\* buy-transaction record.
C39_SkippedPurchaseStillRemovesPair ==
    /\ [][(hist' # hist /\ hist'.last.op = "check" /\ hist'.last.verdict = "match"
             /\ NoTokenOrNoTrading(monitoringConfig[hist'.last.cfg]))
           => LET config == monitoringConfig[hist'.last.cfg]
                  h == config.username
              IN /\ Len(results') = Len(results) + 1
                 /\ SubSeq(results', 1, Len(results)) = results
                 /\ results'[Len(results')] =
                       MatchEvent(config, [id_str |-> hist'.last.id,
                                           full_text |-> PostTextOf(h, hist'.last.id)])
                 /\ purchases' = purchases
                 /\ hist'.purchaseCalls = hist.purchaseCalls
                 /\ buyTransactions' = buyTransactions
                 /\ PairKey(config) \notin activePairs']_vars
    /\ [](~solanaService => /\ purchases = EmptyBag
                            /\ hist.purchaseCalls = EmptyBag
                            /\ buyTransactions = <<>>)

\* C39 witness: trading is disabled, a post has just matched the pair that has a
\* token address; its MatchEvent is the last record of the result log, the pair
\* is out of the active set and the other pair is still monitored.
C39_Witness ==
    /\ ~solanaService
    /\ Last.op = "check"
    /\ Last.verdict = "match"
    /\ monitoringConfig[Last.cfg].tokenCA # NullCA
    /\ Len(results) > 0
    /\ results[Len(results)].tweetId = Last.id
    /\ PairKey(monitoringConfig[Last.cfg]) \notin activePairs
    /\ activePairs # {}

=============================================================================
